---- MODULE Spec2Model ----
(***************************************************************************)
(* Model of the record-validation framework of diagnostic_tool             *)
(* (src/src/utils/validation.py), of the metric functions that call it    *)
(* (src/src/diagnostic_tool/biodiversity_metrics.py), among them the trait *)
(* matrix builder and the functional richness engine, and of the risk      *)
(* ratios (src/src/diagnostic_tool/strategy_metrics.py).                   *)
(*                                                                         *)
(* Every function of the program is synchronous and keeps no state between *)
(* calls, so a behaviour is one call: Init draws the function and its      *)
(* arguments, and the function's action runs the whole body.               *)
(*   pc      "call" before the body has run, "done" after                  *)
(*   fn      the function called                                           *)
(*   args0   the caller's argument objects as they were at the call        *)
(*   args    the caller's argument objects (what the caller sees now)      *)
(*   result  how the call ended: a return value or a raised exception      *)
(*   events  the checks and steps the body evaluated, in order             *)
(*   estimators  the encoder and the scaler the last call constructed      *)
(*   calls   the calls the caller has finished before this one             *)
(***************************************************************************)
EXTENDS Integers, Sequences, FiniteSets, TLC

VARIABLES pc, fn, args0, args, result, events, estimators, calls

vars == <<pc, fn, args0, args, result, events, estimators, calls>>

(***************************************************************************)
(* Bounds of the model.                                                    *)
(***************************************************************************)
\* longest value sequence handed to validate_array_values
MaxLen == 3
\* longest record list handed to validate_type_schema
MaxRecs == 2
\* records that follow the first one in a metric function's input list
MaxTail == 1
\* most records of a batch of valid trait records
MaxRows == 3
\* calls one caller makes in a row
MaxCalls == 3

(***************************************************************************)
(* Python values.  t is the Python type, c the class of a float (finite,   *)
(* nan, +inf, -inf), n/d the value of a finite number as a fraction in     *)
(* lowest terms with d > 0, s the text of a str.                           *)
(***************************************************************************)
PyVal(t, c, n, d, s) == [t |-> t, c |-> c, n |-> n, d |-> d, s |-> s]

PyFloat(n, d) == PyVal("float", "fin", n, d, "")
PyInt(n) == PyVal("int", "fin", n, 1, "")
PyBool(b) == PyVal("bool", "fin", IF b THEN 1 ELSE 0, 1, "")
PyStr(s) == PyVal("str", "fin", 0, 1, s)
NaN == PyVal("float", "nan", 0, 1, "")
PosInf == PyVal("float", "pinf", 0, 1, "")
NegInf == PyVal("float", "ninf", 0, 1, "")
None == PyVal("NoneType", "fin", 0, 1, "")

\* int, float and bool take part in numeric comparison; str and None do not
IsNumber(v) == v.t \in {"int", "float", "bool"}

IsFinite(v) == IsNumber(v) /\ v.c = "fin"

\* Python's a <= b on two numbers: every comparison with nan is False
LeNum(a, b) ==
    IF a.c = "nan" \/ b.c = "nan" THEN FALSE
    ELSE IF a.c = "ninf" \/ b.c = "pinf" THEN TRUE
    ELSE IF a.c = "pinf" \/ b.c = "ninf" THEN FALSE
    ELSE a.n * b.d <= b.n * a.d

\* Python's a < b on two numbers
LtNum(a, b) ==
    IF a.c = "nan" \/ b.c = "nan" THEN FALSE
    ELSE IF a.c = b.c /\ a.c # "fin" THEN FALSE
    ELSE IF a.c = "ninf" \/ b.c = "pinf" THEN TRUE
    ELSE IF a.c = "pinf" \/ b.c = "ninf" THEN FALSE
    ELSE a.n * b.d < b.n * a.d

\* Python's a == b on two numbers (1 == 1.0 == True)
EqNum(a, b) ==
    IF a.c = "nan" \/ b.c = "nan" THEN FALSE
    ELSE IF a.c # "fin" \/ b.c # "fin" THEN a.c = b.c
    ELSE a.n * b.d = b.n * a.d

\* isinstance(v, T) for one type T: bool is a subclass of int
InstanceOf(v, T) == v.t = T \/ (v.t = "bool" /\ T = "int")

\* isinstance(v, types) for a tuple of types
IsInstance(v, types) == \E k \in 1..Len(types) : InstanceOf(v, types[k])

(***************************************************************************)
(* Outcomes of a call.  An error message is kept as its template and the   *)
(* values interpolated into it.                                            *)
(***************************************************************************)
NoMsg == [tmpl |-> "", index |-> -1, key |-> "", lo |-> None, hi |-> None,
          value |-> None, list |-> <<>>, actual |-> "", expected |-> <<>>]

Return(v) == [kind |-> "return", exc |-> "", value |-> v, msg |-> NoMsg]

Raise(exc, msg) == [kind |-> "raise", exc |-> exc, value |-> None, msg |-> msg]

NoResult == [kind |-> "none", exc |-> "", value |-> None, msg |-> NoMsg]

\* one evaluated check or step: op is "getitem", "presence", "type" or
\* "range" for a check of the record of 0-based index rec on the field key,
\* and "categorical", "continuous", "fit_transform", "hstack" or
\* "ConvexHull" for a step of the trait matrix builder (rec is -1); "warn"
\* is a warnings.warn and "print" a print, with the text as key
Event(op, rec, key) == [op |-> op, rec |-> rec, key |-> key]

(***************************************************************************)
(* validate_range                                                          *)
(***************************************************************************)
\* f"{name} must be between {min_val} and {max_val}, got {value}"
RangeMsg(name, min_val, max_val, value) ==
    [NoMsg EXCEPT !.tmpl = "must be between", !.key = name,
                  !.lo = min_val, !.hi = max_val, !.value = value]

\* the operands of min_val <= value <= max_val cannot be ordered
CompareMsg(value) ==
    [NoMsg EXCEPT !.tmpl = "not supported between instances", !.value = value]

\* a faulty validate_range, the bounds taken as exclusive
validate_range_exclusive(value, min_val, max_val, name) ==
    IF ~IsNumber(value) THEN Raise("TypeError", CompareMsg(value))
    ELSE IF ~(LtNum(min_val, value) /\ LtNum(value, max_val))
         THEN Raise("ValueError", RangeMsg(name, min_val, max_val, value))
         ELSE Return(None)

\* a faulty validate_range, the check written as
\* value < min_val or value > max_val: nan then fails neither comparison
validate_range_unguarded(value, min_val, max_val, name) ==
    IF ~IsNumber(value) THEN Raise("TypeError", CompareMsg(value))
    ELSE IF LtNum(value, min_val) \/ LtNum(max_val, value)
         THEN Raise("ValueError", RangeMsg(name, min_val, max_val, value))
         ELSE Return(None)

\* if not min_val <= value <= max_val: raise ValueError(...)
validate_range(value, min_val, max_val, name) ==
    IF ~IsNumber(value) THEN Raise("TypeError", CompareMsg(value))
    ELSE IF ~(LeNum(min_val, value) /\ LeNum(value, max_val))
         THEN Raise("ValueError", RangeMsg(name, min_val, max_val, value))
         ELSE Return(None)

(***************************************************************************)
(* Inputs of validate_range.                                               *)
(***************************************************************************)
\* the values a caller may hand over as the value to validate
RangeValues ==
    {PyFloat(n, 1) : n \in -1..2} \cup {PyInt(n) : n \in -1..2}
    \cup {PyFloat(1, 100), PyFloat(1, 200), PyFloat(1, 2),
          NaN, PosInf, NegInf, PyStr("x")}

\* the bounds the callers declare: 0, 0.0, 0.01, 1, 1.0, +inf, -inf
RangeBounds ==
    {PyInt(0), PyFloat(0, 1), PyFloat(1, 100), PyInt(1), PyFloat(1, 1),
     PosInf, NegInf, NaN}

RangeArgs ==
    [value : RangeValues, min_val : RangeBounds, max_val : RangeBounds,
     name : {"area"}]

InitRange ==
    /\ fn = "validate_range"
    /\ args0 \in RangeArgs

(***************************************************************************)
(* validate_array_values                                                   *)
(***************************************************************************)
\* np.asarray on a sequence of numbers: an int64 array when every element
\* is an int, else float64 (each int converted); an empty sequence gives
\* an empty float64 array
AsArray(values) ==
    IF Len(values) > 0 /\ \A i \in 1..Len(values) : values[i].t = "int"
    THEN values
    ELSE [i \in 1..Len(values) |->
            IF values[i].t = "float" THEN values[i]
            ELSE PyVal("float", values[i].c, values[i].n, values[i].d, "")]

\* np.all(mask)
NpAll(mask) == \A i \in 1..Len(mask) : mask[i]

\* f"{name} contains values outside[{min_val}, {max_val}]: {invalid.tolist()}"
ArrayMsg(name, min_val, max_val, invalid) ==
    [NoMsg EXCEPT !.tmpl = "contains values outside", !.key = name,
                  !.lo = min_val, !.hi = max_val, !.list = invalid]

\* values[(values < min_val) | (values > max_val)]
InvalidValues(arr, min_val, max_val) ==
    SelectSeq(arr, LAMBDA v : LtNum(v, min_val) \/ LtNum(max_val, v))

\* a faulty validate_array_values, the mask written with <= and >=
validate_array_values_offbyone(values, min_val, max_val, name) ==
    LET arr == AsArray(values)
        geMin == [i \in 1..Len(arr) |-> LeNum(min_val, arr[i])]
        leMax == [i \in 1..Len(arr) |-> LeNum(arr[i], max_val)]
    IN  IF (~NpAll(geMin)) /\ NpAll(leMax)
        THEN Raise("ValueError", ArrayMsg(name, min_val, max_val,
                 SelectSeq(arr, LAMBDA v : LeNum(v, min_val) \/ LeNum(max_val, v))))
        ELSE Return(None)

\* if not np.all(min_val <= values) and np.all(values <= max_val): raise ...
\* Python reads the condition as (not np.all(...)) and np.all(...)
validate_array_values(values, min_val, max_val, name) ==
    LET arr == AsArray(values)
        geMin == [i \in 1..Len(arr) |-> LeNum(min_val, arr[i])]
        leMax == [i \in 1..Len(arr) |-> LeNum(arr[i], max_val)]
    IN  IF (~NpAll(geMin)) /\ NpAll(leMax)
        THEN Raise("ValueError", ArrayMsg(name, min_val, max_val,
                                          InvalidValues(arr, min_val, max_val)))
        ELSE Return(None)

\* a faulty validate_array_values that converts the caller's sequence in
\* place (values[:] = np.asarray(values))
ArrayArgsAfterInPlace(a) == [a EXCEPT !.values = AsArray(a.values)]

\* the caller's arguments after validate_array_values: values = np.asarray(values)
\* binds the array to the local name, the caller's sequence is not written
ArrayArgsAfter(a) == a

\* sequences over S of length 0..n
SeqsUpTo(S, n) == UNION {[1..k -> S] : k \in 0..n}

ArrayElements ==
    {PyInt(0), PyInt(2), PyFloat(-1, 1), PyFloat(1, 2), PyFloat(2, 1), NaN}

ArrayArgs ==
    [values : SeqsUpTo(ArrayElements, MaxLen),
     min_val : {PyFloat(0, 1), NegInf, NaN},
     max_val : {PyFloat(1, 1), PosInf},
     name : {"array"}]

InitArray ==
    /\ fn = "validate_array_values"
    /\ args0 \in ArrayArgs

(***************************************************************************)
(* validate_type_schema                                                    *)
(*                                                                         *)
(* A record is a function from the field names it holds to values; the     *)
(* schema, a dict, is the sequence of its (key, types) items in insertion  *)
(* order, types being the tuple of accepted type names.                    *)
(***************************************************************************)
\* a faulty index, counted from 1 (enumerate(inputs, 1))
RecordIndexOneBased(i) == i

\* enumerate(inputs) numbers the records from 0: the index of the i-th record
RecordIndex(i) == i - 1

\* a faulty missing-field error, raised as a TypeError
MissingFieldErrorAsTypeError(i, key) ==
    Raise("TypeError",
          [NoMsg EXCEPT !.tmpl = "is missing input", !.index = RecordIndex(i),
                        !.key = key])

\* raise ValueError(f"Record {i} is missing input: {key}")
MissingFieldError(i, key) ==
    Raise("ValueError",
          [NoMsg EXCEPT !.tmpl = "is missing input", !.index = RecordIndex(i),
                        !.key = key])

\* raise TypeError(f"Record {i}, key {key} has type {type(record[key]).__name__}"
\*                 f"expected one of: {[t.__name__ for t in expected_type]}")
WrongTypeError(i, key, value, expected_type) ==
    Raise("TypeError",
          [NoMsg EXCEPT !.tmpl = "has type", !.index = RecordIndex(i),
                        !.key = key, !.actual = value.t,
                        !.expected = expected_type])

\* the two loops of validate_type_schema, from record i and schema item j on;
\* evs are the checks evaluated so far
RECURSIVE ScanSchema(_, _, _, _, _)
ScanSchema(inputs, type_schema, i, j, evs) ==
    IF i > Len(inputs)
    THEN [result |-> Return(None), events |-> evs]
    ELSE IF j > Len(type_schema)
    THEN ScanSchema(inputs, type_schema, i + 1, 1, evs)
    ELSE LET key == type_schema[j].key
             expected_type == type_schema[j].types
             record == inputs[i]
             evP == Append(evs, Event("presence", RecordIndex(i), key))
             evT == Append(evP, Event("type", RecordIndex(i), key))
         IN  IF key \notin DOMAIN record
             THEN [result |-> MissingFieldError(i, key), events |-> evP]
             ELSE IF ~IsInstance(record[key], expected_type)
             THEN [result |-> WrongTypeError(i, key, record[key], expected_type),
                   events |-> evT]
             ELSE ScanSchema(inputs, type_schema, i, j + 1, evT)

\* a faulty validate_type_schema that leaves the loop after the first record
validate_type_schema_first_only(inputs, type_schema) ==
    ScanSchema(SubSeq(inputs, 1, IF Len(inputs) > 0 THEN 1 ELSE 0),
               type_schema, 1, 1, <<>>)

\* validate_type_schema(inputs, type_schema): the outcome and the checks made
validate_type_schema(inputs, type_schema) ==
    ScanSchema(inputs, type_schema, 1, 1, <<>>)

(***************************************************************************)
(* Inputs of validate_type_schema.                                         *)
(***************************************************************************)
\* marks a field the record does not hold
Absent == PyVal("absent", "fin", 0, 1, "")

\* the record holding f[k] for every field k with f[k] # Absent
MakeRecord(f) == [k \in {x \in DOMAIN f : f[x] # Absent} |-> f[k]]

\* all records over the fields, each field absent or holding one of vals
RecordsOver(fields, vals) ==
    {MakeRecord(f) : f \in [fields -> vals \cup {Absent}]}

SchemaKeys == {"area", "condition"}

SchemaValues == {PyFloat(1, 1), PyInt(1), PyStr("x"), PyBool(TRUE)}

\* the type tuples the callers declare: (float, float) and (str, float)
TypeTuples == {<<"float", "float">>, <<"str", "float">>}

SchemaItem(k, ts) == [key |-> k, types |-> ts]

\* schemas of zero, one or two keys, in either insertion order
Schemas ==
    {<<>>}
    \cup {<<SchemaItem("area", t)>> : t \in TypeTuples}
    \cup {<<SchemaItem(k[1], t1), SchemaItem(k[2], t2)>> :
            k \in {<<"area", "condition">>, <<"condition", "area">>},
            t1 \in TypeTuples, t2 \in TypeTuples}

SchemaArgs ==
    [inputs : SeqsUpTo(RecordsOver(SchemaKeys, SchemaValues), MaxRecs),
     type_schema : Schemas]

InitSchema ==
    /\ fn = "validate_type_schema"
    /\ args0 \in SchemaArgs

(***************************************************************************)
(* Arithmetic on Python numbers (finite values as exact fractions).        *)
(***************************************************************************)
Abs(x) == IF x < 0 THEN -x ELSE x

RECURSIVE Gcd(_, _)
Gcd(a, b) == IF b = 0 THEN a ELSE Gcd(b, a % b)

\* the float n/d, d # 0, in lowest terms with a positive denominator
Fraction(n, d) ==
    LET g == Gcd(Abs(n), Abs(d))
        sgn == IF d < 0 THEN -1 ELSE 1
    IN  IF n = 0 THEN PyFloat(0, 1)
        ELSE PyFloat(sgn * (n \div g), Abs(d) \div g)

Sign(v) ==
    IF v.c = "pinf" THEN 1
    ELSE IF v.c = "ninf" THEN -1
    ELSE IF v.n > 0 THEN 1 ELSE IF v.n < 0 THEN -1 ELSE 0

Infinity(sgn) == IF sgn > 0 THEN PosInf ELSE NegInf

\* a / b for b # 0 (true division, the result is a float)
DivNum(a, b) ==
    IF a.c = "nan" \/ b.c = "nan" THEN NaN
    ELSE IF a.c # "fin" /\ b.c # "fin" THEN NaN
    ELSE IF a.c # "fin" THEN Infinity(Sign(a) * Sign(b))
    ELSE IF b.c # "fin" THEN PyFloat(0, 1)
    ELSE Fraction(a.n * b.d, a.d * b.n)

\* a * b as floats
MulNum(a, b) ==
    IF a.c = "nan" \/ b.c = "nan" THEN NaN
    ELSE IF a.c # "fin" \/ b.c # "fin"
         THEN IF Sign(a) * Sign(b) = 0 THEN NaN ELSE Infinity(Sign(a) * Sign(b))
    ELSE Fraction(a.n * b.n, a.d * b.d)

\* a - b as floats
SubNum(a, b) ==
    IF a.c = "nan" \/ b.c = "nan" THEN NaN
    ELSE IF a.c # "fin" /\ b.c # "fin"
         THEN IF a.c = b.c THEN NaN ELSE a
    ELSE IF a.c # "fin" THEN a
    ELSE IF b.c # "fin" THEN Infinity(-Sign(b))
    ELSE Fraction(a.n * b.d - b.n * a.d, a.d * b.d)

(***************************************************************************)
(* The metric functions' use of the validators.                            *)
(***************************************************************************)
\* record[key] on a record that does not hold key
KeyError(key) == Raise("KeyError", [NoMsg EXCEPT !.tmpl = "KeyError", !.key = key])

RangeItem(key, lo, hi) == [key |-> key, lo |-> lo, hi |-> hi]

\* for key, (min_val, max_val) in items: validate_range(record[key], ...),
\* from item k on, for the record of 0-based index idx
RECURSIVE ValidateRanges(_, _, _, _, _)
ValidateRanges(record, idx, items, k, evs) ==
    IF k > Len(items)
    THEN [result |-> Return(None), events |-> evs]
    ELSE LET key == items[k].key
             evG == Append(evs, Event("getitem", idx, key))
             evR == Append(evG, Event("range", idx, key))
         IN  IF key \notin DOMAIN record
             THEN [result |-> KeyError(key), events |-> evG]
             ELSE LET r == validate_range(record[key], items[k].lo, items[k].hi, key)
                  IN  IF r.kind = "raise"
                      THEN [result |-> r, events |-> evR]
                      ELSE ValidateRanges(record, idx, items, k + 1, evR)

\* a faulty required_keys: the lower bound of the area of
\* calculate_biodiversity_units, which refuses a zero area as out of range
SpeciesRanges_positive_area ==
    <<RangeItem("total_species", PyInt(0), PosInf),
      RangeItem("area", PyFloat(1, 100), PosInf)>>

\* for key in ["total_species", "area"]: validate_range(record[key], 0, inf, key)
SpeciesRanges ==
    <<RangeItem("total_species", PyInt(0), PosInf),
      RangeItem("area", PyInt(0), PosInf)>>

\* calculate_species_richness(specimen_richness_data, strict): the body of
\* the loop always leaves the function, so only the first record is read
calculate_species_richness(data, strict) ==
    IF Len(data) = 0
    THEN [result |-> Return(None), events |-> <<>>]
    ELSE LET record == data[1]
             evT == <<Event("getitem", 0, "total_species")>>
             evA == Append(evT, Event("getitem", 0, "area"))
         IN  IF "total_species" \notin DOMAIN record
             THEN [result |-> KeyError("total_species"), events |-> evT]
             ELSE IF "area" \notin DOMAIN record
             THEN [result |-> KeyError("area"), events |-> evA]
             ELSE LET v == ValidateRanges(record, 0, SpeciesRanges, 1, evA)
                  IN  IF v.result.kind = "raise" THEN v
                      ELSE IF EqNum(record["area"], PyInt(0))
                      THEN [result |->
                              IF strict
                              THEN Raise("ValueError",
                                         [NoMsg EXCEPT !.tmpl =
                                            "Area must be greater than zero for strict mode."])
                              ELSE Return(NaN),
                            events |-> v.events]
                      ELSE [result |-> Return(DivNum(record["total_species"],
                                                     record["area"])),
                            events |-> v.events]

\* required_keys of calculate_habitat_condition_score
HabitatRanges ==
    <<RangeItem("vegetation_cover", PyFloat(0, 1), PyFloat(100, 1)),
      RangeItem("soil_quality", PyFloat(0, 1), PyFloat(1, 1)),
      RangeItem("water_quality", PyFloat(0, 1), PyFloat(1, 1)),
      RangeItem("invasive_species", PyFloat(0, 1), PyFloat(1, 1)),
      RangeItem("fauna_diversity", PyFloat(0, 1), PyFloat(1, 1))>>

\* type_schema of calculate_habitat_condition_score
HabitatTypeSchema ==
    [k \in 1..Len(HabitatRanges) |->
        SchemaItem(HabitatRanges[k].key, <<"float", "float">>)]

\* (vegetation_cover / 100.0) * soil_quality * water_quality
\*     * (1 - invasive_species) * fauna_diversity
HabitatScore(record) ==
    MulNum(MulNum(MulNum(MulNum(
        DivNum(record["vegetation_cover"], PyFloat(100, 1)),
        record["soil_quality"]),
        record["water_quality"]),
        SubNum(PyInt(1), record["invasive_species"])),
        record["fauna_diversity"])

\* calculate_habitat_condition_score(condition_data): the whole batch is
\* type-checked, then the first record is range-checked and scored
calculate_habitat_condition_score(data) ==
    LET t == validate_type_schema(data, HabitatTypeSchema)
    IN  IF t.result.kind = "raise" THEN t
        ELSE IF Len(data) = 0 THEN [result |-> Return(None), events |-> t.events]
        ELSE LET v == ValidateRanges(data[1], 0, HabitatRanges, 1, t.events)
             IN  IF v.result.kind = "raise" THEN v
                 ELSE LET score == HabitatScore(data[1])
                      IN  [result |->
                             IF ~IsFinite(score)
                             THEN Raise("ValueError",
                                        [NoMsg EXCEPT !.tmpl =
                                           "Habitat condition score must be finite."])
                             ELSE Return(score),
                           events |-> v.events]

(***************************************************************************)
(* Inputs of the metric functions: any first record, followed by at most   *)
(* MaxTail records drawn from a few.                                       *)
(***************************************************************************)
\* the lists <<first>> \o tail, and the empty list
Batches(firsts, tails) ==
    {<<>>} \cup {<<r>> \o t : r \in firsts, t \in SeqsUpTo(tails, MaxTail)}

SpeciesValues ==
    {PyInt(-1), PyInt(0), PyInt(2), PyFloat(0, 1), PyFloat(1, 2), PyFloat(2, 1),
     PosInf, NaN, PyStr("many")}

SpeciesTails ==
    {[total_species |-> PyInt(2), area |-> PyFloat(2, 1)],
     [total_species |-> PyStr("many"), area |-> PyFloat(2, 1)],
     [total_species |-> PyInt(-1), area |-> PyFloat(2, 1)]}

SpeciesArgs ==
    [data : Batches(RecordsOver({"total_species", "area"}, SpeciesValues),
                    SpeciesTails),
     strict : BOOLEAN]

InitSpecies ==
    /\ fn = "calculate_species_richness"
    /\ args0 \in SpeciesArgs

HabitatFields ==
    {"vegetation_cover", "soil_quality", "water_quality", "invasive_species",
     "fauna_diversity"}

CoverValues ==
    {PyFloat(50, 1), PyFloat(100, 1), PyFloat(101, 1), PyInt(90), PyStr("high"),
     NaN, Absent}

QualityValues == {PyFloat(1, 2), PyFloat(2, 1), PyInt(1), Absent}

HabitatFirsts ==
    {MakeRecord(f) :
        f \in {g \in [HabitatFields -> CoverValues \cup QualityValues] :
                 /\ g["vegetation_cover"] \in CoverValues
                 /\ \A k \in HabitatFields \ {"vegetation_cover"} :
                        g[k] \in QualityValues}}

ValidHabitat ==
    [vegetation_cover |-> PyFloat(50, 1), soil_quality |-> PyFloat(1, 2),
     water_quality |-> PyFloat(1, 2), invasive_species |-> PyFloat(1, 2),
     fauna_diversity |-> PyFloat(1, 2)]

HabitatTails ==
    {ValidHabitat, [ValidHabitat EXCEPT !["soil_quality"] = PyInt(1)]}

\* batches whose second record passes the type schema and is out of range
LateOutOfRange ==
    {<<r, [ValidHabitat EXCEPT !["soil_quality"] = PyFloat(2, 1)]>> :
        r \in {ValidHabitat,
                [ValidHabitat EXCEPT !["vegetation_cover"] = PyFloat(100, 1)],
                [ValidHabitat EXCEPT !["water_quality"] = PyFloat(2, 1)]}}

HabitatArgs == [data : Batches(HabitatFirsts, HabitatTails) \cup LateOutOfRange]

InitHabitat ==
    /\ fn = "calculate_habitat_condition_score"
    /\ args0 \in HabitatArgs

(***************************************************************************)
(* build_required_keys and prepare_trait_matrix.                           *)
(*                                                                         *)
(* A matrix is a record: sparse tells a scipy sparse matrix from a numpy   *)
(* array, shape is <<rows, columns>>, data the rows in order.  A           *)
(* standardized entry is kept exactly: the float of class "sqrt" with n/d  *)
(* is the number sign(n) * sqrt(|n| / d).  An encoder is the set of        *)
(* <<column, category>> pairs it has learnt, a scaler the sequence of      *)
(* <<column, value>> samples it has been fitted on.                        *)
(***************************************************************************)
\* f"trait_{i}" for i = 1, 2, ...
TraitNames == <<"trait_1", "trait_2">>

\* [f"trait_{i}" for i in range(1, trait_count + 1)]
TraitFields(trait_count) == SubSeq(TraitNames, 1, trait_count)

\* the default of id_type
IdType == <<"str", "float">>

\* the default of abundance_type
AbundanceType == <<"float">>

\* the types build_required_keys gives every trait
TraitType == <<"str", "float">>

\* build_required_keys(trait_fields, id_type, abundance_type), read through
\* {key: meta["types"]}: the keys in insertion order, each with its types
\* (the "range" entry of a trait is not part of the type schema)
build_required_keys(trait_fields, id_type, abundance_type) ==
    <<SchemaItem("species_id", id_type), SchemaItem("abundance", abundance_type)>>
    \o [k \in 1..Len(trait_fields) |-> SchemaItem(trait_fields[k], TraitType)]

\* the type schema prepare_trait_matrix validates against
TraitTypeSchema(trait_count) ==
    build_required_keys(TraitFields(trait_count), IdType, AbundanceType)

\* a faulty frame that holds every trait column whatever the records hold
FrameColumns_declared(trait_data) ==
    {TraitNames[k] : k \in 1..Len(TraitNames)}
    \cup UNION {DOMAIN trait_data[i] : i \in 1..Len(trait_data)}

\* the columns of pd.DataFrame(trait_data): every key of every record
FrameColumns(trait_data) ==
    UNION {DOMAIN trait_data[i] : i \in 1..Len(trait_data)}

\* df[trait_fields] with labels that are not columns of df
FrameKeyError(missing) ==
    Raise("KeyError", [NoMsg EXCEPT !.tmpl = "not in index", !.list = missing])

\* the cell of a record in a column: NaN where the record lacks the key
Cell(record, key) == IF key \in DOMAIN record THEN record[key] ELSE NaN

\* trait_df[key]
Column(trait_data, key) ==
    [i \in 1..Len(trait_data) |-> Cell(trait_data[i], key)]

\* trait_df[key].dtype == 'object': some cell is neither int nor float
DtypeIsObject(col) == \E i \in 1..Len(col) : col[i].t \notin {"int", "float"}

\* trait_df[key].apply(lambda x: isinstance(x, str)).any()
AnyStr(col) == \E i \in 1..Len(col) : InstanceOf(col[i], "str")

\* a faulty classification: categorical only when every cell is a str
IsCategorical_all(col) == \A i \in 1..Len(col) : InstanceOf(col[i], "str")

\* the condition under which a column joins cat_cols
IsCategorical(col) == DtypeIsObject(col) \/ AnyStr(col)

\* cat_cols
CatCols(trait_data, trait_fields) ==
    LET Test(key) == IsCategorical(Column(trait_data, key))
    IN  SelectSeq(trait_fields, Test)

\* cont_cols
ContCols(trait_data, trait_fields) ==
    LET Test(key) == ~IsCategorical(Column(trait_data, key))
    IN  SelectSeq(trait_fields, Test)

\* the classification loop: one event per column, in column order
ClassifyEvents(trait_data, trait_fields) ==
    [k \in 1..Len(trait_fields) |->
        Event(IF IsCategorical(Column(trait_data, trait_fields[k]))
              THEN "categorical" ELSE "continuous", -1, trait_fields[k])]

\* the concatenation of the sequences ss[k], ..., ss[Len(ss)]
RECURSIVE Flatten(_, _)
Flatten(ss, k) == IF k > Len(ss) THEN <<>> ELSE ss[k] \o Flatten(ss, k + 1)

Matrix(sparse, rows, cols, data) ==
    [t |-> "ndarray", sparse |-> sparse, shape |-> <<rows, cols>>, data |-> data]

\* np.empty((rows, 0))
EmptyMatrix(rows) == Matrix(FALSE, rows, 0, [i \in 1..rows |-> <<>>])

\* the strings of the trait values in sorted order
CategoryOrder == <<"fast", "slow">>

\* no call has constructed an estimator yet
NoEstimators == [oh |-> [categories |-> {}], std_scaler |-> [samples |-> <<>>]]

\* OneHotEncoder(): a new encoder that has learnt nothing, whatever encoder
\* the call before has left
OneHotEncoder(left) == [categories |-> {}]

\* fit: the encoder learns the values of each column
OneHotFit(oh, trait_data, cat_cols) ==
    [categories |->
        oh.categories
        \cup {<<cat_cols[k], Cell(trait_data[i], cat_cols[k]).s>> :
                 k \in 1..Len(cat_cols), i \in 1..Len(trait_data)}]

\* the categories of a column of a fitted encoder: the distinct values, sorted
Categories(oh, key) ==
    LET Test(s) == <<key, s>> \in oh.categories
    IN  SelectSeq(CategoryOrder, Test)

\* the indicator row of one cell over the categories of its column
OneHot(cell, cats) ==
    [k \in 1..Len(cats) |-> IF cell.s = cats[k] THEN PyFloat(1, 1) ELSE PyFloat(0, 1)]

\* a column that mixes str with numbers cannot be sorted into categories
MixedColumn(col) ==
    /\ \E i \in 1..Len(col) : col[i].t = "str"
    /\ \E i \in 1..Len(col) : col[i].t # "str"

MixedTypesError(key) ==
    Raise("TypeError", [NoMsg EXCEPT !.tmpl = "uniformly strings or numbers",
                                     !.key = key])

\* oh.fit_transform(trait_df[cat_cols]): the fitted encoder and a sparse
\* matrix (the encoder's default output) of one indicator block per column,
\* in column order
OneHotFitTransform(oh, trait_data, cat_cols) ==
    LET mixed == {k \in 1..Len(cat_cols) : MixedColumn(Column(trait_data, cat_cols[k]))}
        fitted == OneHotFit(oh, trait_data, cat_cols)
        cats == [k \in 1..Len(cat_cols) |-> Categories(fitted, cat_cols[k])]
        Row(i) == Flatten([k \in 1..Len(cat_cols) |->
                              OneHot(Cell(trait_data[i], cat_cols[k]), cats[k])], 1)
        width == Len(Flatten(cats, 1))
    IN  IF mixed # {}
        THEN [result |-> MixedTypesError(cat_cols[CHOOSE k \in mixed :
                                                     \A m \in mixed : k <= m]),
              oh |-> oh]
        ELSE [result |-> Return(Matrix(TRUE, Len(trait_data), width,
                                       [i \in 1..Len(trait_data) |-> Row(i)])),
              oh |-> fitted]

\* a + b as floats, both finite
AddNum(a, b) == Fraction(a.n * b.d + b.n * a.d, a.d * b.d)

\* the sum of the finite floats xs[k], ..., xs[Len(xs)]
RECURSIVE SumNum(_, _)
SumNum(xs, k) ==
    IF k > Len(xs) THEN PyFloat(0, 1) ELSE AddNum(xs[k], SumNum(xs, k + 1))

\* the mean of a non-empty column of finite floats
Mean(xs) == DivNum(SumNum(xs, 1), PyFloat(Len(xs), 1))

\* the population variance of a non-empty column of finite floats
Variance(xs) ==
    LET m == Mean(xs)
        sq == [i \in 1..Len(xs) |-> MulNum(SubNum(xs[i], m), SubNum(xs[i], m))]
    IN  Mean(sq)

\* dev / sqrt(var), exactly; a column of zero variance is scaled by 1
Standardize(dev, var) ==
    IF var.n = 0 THEN PyVal("float", "sqrt", 0, 1, "")
    ELSE LET q == DivNum(MulNum(dev, dev), var)
         IN  PyVal("float", "sqrt", Sign(dev) * q.n, q.d, "")

\* a faulty constructor that hands back the scaler of the call before
StandardScaler_shared(left) == left

\* StandardScaler(): a new scaler that has seen no sample, whatever scaler
\* the call before has left
StandardScaler(left) == [samples |-> <<>>]

\* fit: the scaler takes in the values of each column
ScalerFit(std_scaler, trait_data, cont_cols) ==
    [samples |->
        std_scaler.samples
        \o Flatten([k \in 1..Len(cont_cols) |->
                       [i \in 1..Len(trait_data) |->
                           <<cont_cols[k], Cell(trait_data[i], cont_cols[k])>>]], 1)]

\* the values a fitted scaler has seen of one column
Samples(std_scaler, key) ==
    LET Test(p) == p[1] = key
        seen == SelectSeq(std_scaler.samples, Test)
    IN  [i \in 1..Len(seen) |-> seen[i][2]]

\* transform of one column: (x - mean) / std, with the mean and the standard
\* deviation of the values the scaler was fitted on
StandardScaleColumn(xs, seen) ==
    [i \in 1..Len(xs) |-> Standardize(SubNum(xs[i], Mean(seen)), Variance(seen))]

\* std_scaler.fit_transform(trait_df[cont_cols]): the fitted scaler and a
\* numpy array of one standardized column per continuous trait, in column
\* order
ScalerFitTransform(std_scaler, trait_data, cont_cols) ==
    LET fitted == ScalerFit(std_scaler, trait_data, cont_cols)
        scaled == [k \in 1..Len(cont_cols) |->
                      StandardScaleColumn(Column(trait_data, cont_cols[k]),
                                          Samples(fitted, cont_cols[k]))]
    IN  [matrix |-> Matrix(FALSE, Len(trait_data), Len(cont_cols),
                           [i \in 1..Len(trait_data) |->
                               [k \in 1..Len(cont_cols) |-> scaled[k][i]]]),
         std_scaler |-> fitted]

\* np.hstack of a scipy sparse matrix and a 2-D array: numpy sees the sparse
\* matrix as one object, an array of one dimension
DimensionsError ==
    Raise("ValueError", [NoMsg EXCEPT !.tmpl = "same number of dimensions"])

\* np.hstack([encoded, scaled])
HStack(encoded, scaled) ==
    IF encoded.sparse THEN DimensionsError
    ELSE Return(Matrix(FALSE, encoded.shape[1], encoded.shape[2] + scaled.shape[2],
                       [i \in 1..encoded.shape[1] |-> encoded.data[i] \o scaled.data[i]]))

\* the body of prepare_trait_matrix after validate_type_schema has passed
BuildTraitMatrix(trait_data, trait_fields, evs) ==
    LET oh == OneHotEncoder(estimators.oh)
        std_scaler == StandardScaler(estimators.std_scaler)
        missing == SelectSeq(trait_fields,
                             LAMBDA key : key \notin FrameColumns(trait_data))
        cat_cols == CatCols(trait_data, trait_fields)
        cont_cols == ContCols(trait_data, trait_fields)
        evC == evs \o ClassifyEvents(trait_data, trait_fields)
        evE == IF cat_cols # <<>>
               THEN Append(evC, Event("fit_transform", -1, "OneHotEncoder"))
               ELSE evC
        evS == IF cont_cols # <<>>
               THEN Append(evE, Event("fit_transform", -1, "StandardScaler"))
               ELSE evE
        encoded == IF cat_cols # <<>>
                   THEN OneHotFitTransform(oh, trait_data, cat_cols)
                   ELSE [result |-> Return(EmptyMatrix(Len(trait_data))), oh |-> oh]
        scaled == IF cont_cols # <<>>
                  THEN ScalerFitTransform(std_scaler, trait_data, cont_cols)
                  ELSE [matrix |-> EmptyMatrix(Len(trait_data)),
                        std_scaler |-> std_scaler]
    IN  IF missing # <<>>
        THEN [result |-> FrameKeyError(missing), events |-> evs,
              estimators |-> [oh |-> oh, std_scaler |-> std_scaler]]
        ELSE IF encoded.result.kind = "raise"
        THEN [result |-> encoded.result, events |-> evE,
              estimators |-> [oh |-> encoded.oh, std_scaler |-> std_scaler]]
        ELSE [result |-> HStack(encoded.result.value, scaled.matrix),
              events |-> Append(evS, Event("hstack", -1, "")),
              estimators |-> [oh |-> encoded.oh, std_scaler |-> scaled.std_scaler]]

\* a faulty prepare_trait_matrix that encodes without validating
prepare_trait_matrix_unvalidated(trait_data, trait_count) ==
    BuildTraitMatrix(trait_data, TraitFields(trait_count), <<>>)

\* prepare_trait_matrix(trait_data, trait_count): the outcome, the steps and
\* the estimators the call leaves
prepare_trait_matrix(trait_data, trait_count) ==
    LET checked == validate_type_schema(trait_data, TraitTypeSchema(trait_count))
    IN  IF checked.result.kind = "raise"
        THEN [result |-> checked.result, events |-> checked.events,
              estimators |-> estimators]
        ELSE BuildTraitMatrix(trait_data, TraitFields(trait_count), checked.events)

(***************************************************************************)
(* calculate_functional_richness.                                          *)
(*                                                                         *)
(* The entries of one column of a trait matrix are rational multiples of   *)
(* one another, so a column is kept as rational coordinates times the      *)
(* square root of the column's unit, and areas are computed exactly.       *)
(***************************************************************************)
\* the square of a matrix entry, with the entry's sign, as a fraction
SignedSquare(v) ==
    IF v.c = "sqrt" THEN Fraction(v.n, v.d)
    ELSE Fraction(Sign(v) * v.n * v.n, v.d * v.d)

\* the square of the absolute value of a matrix entry
Square(v) == LET q == SignedSquare(v) IN Fraction(Abs(q.n), q.d)

\* the root of a perfect square
ISqrt(n) == CHOOSE k \in 0..n : k * k = n

\* the unit of a column: the smallest square of a non-zero entry
ColumnUnit(points, k) ==
    LET squares == {Square(points[i][k]) : i \in 1..Len(points)} \ {PyFloat(0, 1)}
    IN  IF squares = {} THEN PyFloat(1, 1)
        ELSE CHOOSE u \in squares : \A w \in squares : LeNum(u, w)

\* the entry v as a rational multiple of the square root of unit
Multiple(v, unit) ==
    LET q == DivNum(Square(v), unit)
    IN  Fraction(Sign(SignedSquare(v)) * ISqrt(q.n), ISqrt(q.d))

\* (q - p) x (r - p) for points of the plane
Cross(p, q, r) ==
    SubNum(MulNum(SubNum(q[1], p[1]), SubNum(r[2], p[2])),
           MulNum(SubNum(q[2], p[2]), SubNum(r[1], p[1])))

\* (r - p) . (q - r): positive when r lies strictly inside the segment pq
\* of the line through p and q
Inside(p, q, r) ==
    AddNum(MulNum(SubNum(r[1], p[1]), SubNum(q[1], r[1])),
           MulNum(SubNum(r[2], p[2]), SubNum(q[2], r[2])))

\* the points do not span the plane: they all lie on one line
Flat(P) == \A p \in P, q \in P, r \in P : Cross(p, q, r).n = 0

\* the edges of the hull of P, counter-clockwise: every other point lies to
\* the left of the edge or inside it
HullEdges(P) ==
    {e \in P \X P :
        /\ e[1] # e[2]
        /\ \A r \in P \ {e[1], e[2]} :
              \/ Cross(e[1], e[2], r).n > 0
              \/ Cross(e[1], e[2], r).n = 0 /\ Inside(e[1], e[2], r).n > 0}

\* the sum over the edges of p x q
RECURSIVE EdgeSum(_)
EdgeSum(E) ==
    IF E = {} THEN PyFloat(0, 1)
    ELSE LET e == CHOOSE x \in E : TRUE
         IN  AddNum(SubNum(MulNum(e[1][1], e[2][2]), MulNum(e[2][1], e[1][2])),
                    EdgeSum(E \ {e}))

\* the area of the hull of the rational points P
HullArea(P) == DivNum(EdgeSum(HullEdges(P)), PyFloat(2, 1))

DataError(tmpl) == Raise("ValueError", [NoMsg EXCEPT !.tmpl = tmpl])

\* Qhull cannot build an initial simplex from points that span no volume
QhullError == Raise("QhullError", [NoMsg EXCEPT !.tmpl = "initial simplex is flat"])

\* ConvexHull(trait_matrix, incremental=True).volume for a matrix of one or
\* two columns: Qhull takes points of two or more dimensions and fails on
\* points that span no volume
ConvexHullVolume(trait_matrix) ==
    LET points == trait_matrix.data
        ux == ColumnUnit(points, 1)
        uy == ColumnUnit(points, 2)
        P == {<<Multiple(points[i][1], ux), Multiple(points[i][2], uy)>> :
                 i \in 1..Len(points)}
        area == HullArea(P)
        squared == MulNum(MulNum(area, area), MulNum(ux, uy))
    IN  IF trait_matrix.shape[1] = 0 THEN DataError("No points given")
        ELSE IF trait_matrix.shape[2] < 2 THEN DataError("Need at least 2-D data")
        ELSE IF Flat(P) THEN QhullError
        ELSE Return(PyVal("float", "sqrt", squared.n, squared.d, ""))

\* trait_matrix.shape[0] <= trait_matrix.shape[1]
InsufficientRank(trait_matrix) ==
    trait_matrix.shape[1] <= trait_matrix.shape[2]

\* calculate_functional_richness(trait_data, trait_count): the outcome, the
\* steps and the estimators the call leaves
calculate_functional_richness(trait_data, trait_count) ==
    LET built == prepare_trait_matrix(trait_data, trait_count)
        trait_matrix == built.result.value
    IN  IF built.result.kind = "raise" THEN built
        ELSE IF InsufficientRank(trait_matrix)
        THEN [built EXCEPT !.result = Return(PyFloat(0, 1))]
        ELSE [built EXCEPT !.result = ConvexHullVolume(trait_matrix),
                           !.events = Append(built.events,
                                             Event("ConvexHull", -1, ""))]

(***************************************************************************)
(* Inputs of prepare_trait_matrix and calculate_functional_richness.       *)
(***************************************************************************)
\* the values of trait_count
TraitCounts == 1..Len(TraitNames)

TraitRecord(id, abundance, t1, t2) ==
    MakeRecord([species_id |-> id, abundance |-> abundance,
                trait_1 |-> t1, trait_2 |-> t2])

\* records that pass the schema: float or str traits
ValidTraitRecords ==
    {TraitRecord(PyStr("A"), PyFloat(10, 1), t1, t2) :
        t1 \in {PyFloat(0, 1), PyFloat(1, 1), PyStr("fast"), PyStr("slow")},
        t2 \in {PyFloat(0, 1), PyFloat(1, 1), PyStr("fast")}}

\* records that differ from a valid one in one field: the field is missing,
\* holds an int, or holds another value of a type the schema may refuse
DeviantTraitRecords ==
    {TraitRecord(id, PyFloat(10, 1), PyFloat(0, 1), PyFloat(1, 1)) :
        id \in {Absent, PyInt(7), PyFloat(7, 1)}}
    \cup {TraitRecord(PyStr("A"), a, PyFloat(0, 1), PyFloat(1, 1)) :
        a \in {Absent, PyInt(10), PyStr("a lot"), PyFloat(-20, 1)}}
    \cup {TraitRecord(PyStr("A"), PyFloat(10, 1), t1, PyFloat(1, 1)) :
        t1 \in {Absent, PyInt(1), PyBool(TRUE)}}
    \cup {TraitRecord(PyStr("A"), PyFloat(10, 1), PyFloat(1, 1), t2) :
        t2 \in {Absent, PyInt(1)}}

\* the plain records the deviant ones are mixed with
PlainTraitRecords ==
    {TraitRecord(PyStr("A"), PyFloat(10, 1), PyFloat(0, 1), PyFloat(1, 1)),
     TraitRecord(PyStr("A"), PyFloat(10, 1), PyStr("fast"), PyFloat(0, 1))}

\* three species on no common line whose first trait is unevenly spread, so
\* the hull of the standardized points has an irrational area
SkewedTraitBatches ==
    {<<TraitRecord(PyStr("A"), PyFloat(10, 1), PyFloat(0, 1), PyFloat(0, 1)),
       TraitRecord(PyStr("B"), PyFloat(10, 1), PyFloat(1, 1), PyFloat(0, 1)),
       TraitRecord(PyStr("C"), PyFloat(10, 1), PyFloat(2, 1), t2)>> :
        t2 \in {PyFloat(1, 1), PyFloat(1, 2)}}

TraitArgs ==
    [trait_data : SeqsUpTo(ValidTraitRecords, MaxRows)
                  \cup SeqsUpTo(DeviantTraitRecords \cup PlainTraitRecords, MaxRecs)
                  \cup SkewedTraitBatches,
     trait_count : TraitCounts]

InitPrepare ==
    /\ fn = "prepare_trait_matrix"
    /\ args0 \in TraitArgs

\* the batches of a caller that calls prepare_trait_matrix several times:
\* empty, continuous, categorical, and one the schema refuses
CallBatches ==
    {<<>>,
     <<TraitRecord(PyStr("A"), PyFloat(10, 1), PyFloat(0, 1), PyFloat(0, 1))>>,
     <<TraitRecord(PyStr("A"), PyFloat(10, 1), PyFloat(1, 1), PyFloat(0, 1))>>,
     <<TraitRecord(PyStr("A"), PyFloat(10, 1), PyFloat(0, 1), PyFloat(0, 1)),
       TraitRecord(PyStr("A"), PyFloat(10, 1), PyFloat(1, 1), PyFloat(0, 1))>>,
     <<TraitRecord(PyStr("A"), PyFloat(10, 1), PyStr("fast"), PyFloat(0, 1))>>,
     <<TraitRecord(PyStr("A"), PyInt(10), PyFloat(0, 1), PyFloat(0, 1))>>}

CallArgs == [trait_data : CallBatches, trait_count : TraitCounts]

InitRichness ==
    /\ fn = "calculate_functional_richness"
    /\ args0 \in TraitArgs

(***************************************************************************)
(* calculate_endemism_index.                                               *)
(***************************************************************************)
\* a tuple returned by a function
PyTuple(items) == [t |-> "tuple", items |-> items]

\* required_keys of calculate_endemism_index, in the order of the dict
EndemismRanges ==
    <<RangeItem("presence_or_absence", PyInt(0), PyInt(1)),
      RangeItem("total_regions", PyInt(1), PosInf)>>

\* a faulty handler: except ValueError only
EndemismCaught_value_only == {"ValueError"}

\* except (ValueError, TypeError)
EndemismCaught == {"ValueError", "TypeError"}

\* warnings.warn(f"Skipping invalid record: {e}") for the record of 0-based
\* index idx
SkipWarning(idx) == Event("warn", idx, "Skipping invalid record")

\* the loop of calculate_endemism_index from record i on, with the index
\* and the number of skipped records so far
RECURSIVE EndemismLoop(_, _, _, _, _)
EndemismLoop(endemism_data, i, weighted_endemic_index, num_skipped, evs) ==
    IF i > Len(endemism_data)
    THEN [result |-> Return(PyTuple(<<weighted_endemic_index,
                                      PyInt(num_skipped)>>)),
          events |-> evs]
    ELSE LET record == endemism_data[i]
             v == ValidateRanges(record, i - 1, EndemismRanges, 1, evs)
         IN  IF v.result.kind = "raise"
             THEN IF v.result.exc \in EndemismCaught
                  THEN EndemismLoop(endemism_data, i + 1, weighted_endemic_index,
                                    num_skipped + 1,
                                    Append(v.events, SkipWarning(i - 1)))
                  ELSE v
             ELSE IF EqNum(record["presence_or_absence"], PyInt(1))
                  THEN EndemismLoop(endemism_data, i + 1,
                                    AddNum(weighted_endemic_index,
                                           DivNum(PyInt(1), record["total_regions"])),
                                    num_skipped, v.events)
                  ELSE EndemismLoop(endemism_data, i + 1, weighted_endemic_index,
                                    num_skipped, v.events)

\* calculate_endemism_index(endemism_data)
calculate_endemism_index(endemism_data) ==
    EndemismLoop(endemism_data, 1, PyFloat(0, 1), 0, <<>>)

(***************************************************************************)
(* Inputs of calculate_endemism_index: up to MaxRecs records, each valid,  *)
(* out of range, of a wrong type, or short of a field.                     *)
(***************************************************************************)
EndemismRecord(presence, regions) ==
    MakeRecord([presence_or_absence |-> presence, total_regions |-> regions])

EndemismRecords ==
    {EndemismRecord(PyInt(1), PyInt(1)),
     EndemismRecord(PyInt(1), PyInt(2)),
     EndemismRecord(PyInt(1), PyInt(5)),
     EndemismRecord(PyInt(0), PyInt(5)),
     EndemismRecord(PyFloat(1, 1), PosInf),
     EndemismRecord(PyInt(2), PyInt(5)),
     EndemismRecord(PyInt(1), PyInt(0)),
     EndemismRecord(NaN, PyInt(5)),
     EndemismRecord(PyStr("yes"), PyInt(5)),
     EndemismRecord(PyInt(1), PyStr("five")),
     EndemismRecord(PyInt(1), None),
     EndemismRecord(Absent, PyInt(5)),
     EndemismRecord(PyInt(1), Absent)}

EndemismArgs == [endemism_data : SeqsUpTo(EndemismRecords, MaxRecs)]

InitEndemism ==
    /\ fn = "calculate_endemism_index"
    /\ args0 \in EndemismArgs

(***************************************************************************)
(* calculate_shannon_wiener_index_batch.                                   *)
(*                                                                         *)
(* The index -sum(p * ln p) is kept as the sequence of the proportions p   *)
(* it is computed over (float class "entropy").                            *)
(***************************************************************************)
\* np.array(species_counts).dtype for a sequence of ints, floats and bools:
\* an empty sequence gives a float64 array, one float makes the array
\* float64, bools alone give a bool array
NpDtype(values) ==
    IF Len(values) = 0 THEN "float64"
    ELSE IF \E i \in 1..Len(values) : values[i].t = "float" THEN "float64"
    ELSE IF \E i \in 1..Len(values) : values[i].t = "int" THEN "int64"
    ELSE "bool"

\* np.issubdtype(dtype, np.integer)
IsIntegerDtype(dtype) == dtype = "int64"

\* species_counts.sum() of an integer array, from element k on
RECURSIVE IntSum(_, _)
IntSum(values, k) ==
    IF k > Len(values) THEN 0 ELSE values[k].n + IntSum(values, k + 1)

\* -np.sum(valid_props * np.log(valid_props))
ShannonWiener(valid_props) ==
    [t |-> "float", c |-> "entropy", props |-> valid_props]

ShannonError(text) == Raise("ValueError", [NoMsg EXCEPT !.tmpl = text])

\* warnings.warn("N is zero - returning NaN.")
ZeroTotalWarning == Event("warn", -1, "N is zero - returning NaN.")

\* strict and not np.all(valid_mask)
ZeroCountRefused(strict, valid_mask) == strict /\ ~NpAll(valid_mask)

\* calculate_shannon_wiener_index_batch(species_counts, strict)
calculate_shannon_wiener_index_batch(species_counts, strict) ==
    LET N == IntSum(species_counts, 1)
        proportions == [i \in 1..Len(species_counts) |->
                          DivNum(species_counts[i], PyInt(N))]
        valid_mask == [i \in 1..Len(species_counts) |->
                          LtNum(PyInt(0), proportions[i])]
        valid_props == SelectSeq(proportions, LAMBDA p : LtNum(PyInt(0), p))
    IN  IF ~IsIntegerDtype(NpDtype(species_counts))
        THEN [result |-> ShannonError("All species counts must be integers."),
              events |-> <<>>]
        ELSE IF \E i \in 1..Len(species_counts) :
                    LtNum(species_counts[i], PyInt(0))
        THEN [result |-> ShannonError("All species counts must be non-negative."),
              events |-> <<>>]
        ELSE IF N <= 0
        THEN IF strict
             THEN [result |-> ShannonError(
                     "Total number of individuals (N) must be greater than zero."),
                   events |-> <<>>]
             ELSE [result |-> Return(NaN), events |-> <<ZeroTotalWarning>>]
        ELSE IF ZeroCountRefused(strict, valid_mask)
        THEN [result |-> ShannonError(
                "Zero count species encountered in strict mode."),
              events |-> <<>>]
        ELSE [result |-> Return(ShannonWiener(valid_props)), events |-> <<>>]

(***************************************************************************)
(* Inputs of calculate_shannon_wiener_index_batch.                         *)
(***************************************************************************)
CountValues ==
    {PyInt(-1), PyInt(0), PyInt(1), PyInt(3), PyFloat(2, 1), PyBool(TRUE)}

ShannonArgs ==
    [species_counts : SeqsUpTo(CountValues, MaxLen), strict : BOOLEAN]

InitShannon ==
    /\ fn = "calculate_shannon_wiener_index_batch"
    /\ args0 \in ShannonArgs

(***************************************************************************)
(* calculate_biodiversity_units.                                           *)
(***************************************************************************)
\* validate_range(record["area"], 0.01, inf, "area"), then for key in
\* ["distinctiveness", ...]: validate_range(record[key], 0.0, 1.0, key)
UnitRanges ==
    <<RangeItem("area", PyFloat(1, 100), PosInf),
      RangeItem("distinctiveness", PyFloat(0, 1), PyFloat(1, 1)),
      RangeItem("condition", PyFloat(0, 1), PyFloat(1, 1)),
      RangeItem("strategic_significance", PyFloat(0, 1), PyFloat(1, 1)),
      RangeItem("connectivity", PyFloat(0, 1), PyFloat(1, 1))>>

\* type_schema of calculate_biodiversity_units
UnitTypeSchema ==
    [k \in 1..Len(UnitRanges) |->
        SchemaItem(UnitRanges[k].key, <<"float", "float">>)]

\* area * distinctiveness * condition * strategic_significance * connectivity
BiodiversityUnits(record) ==
    MulNum(MulNum(MulNum(MulNum(
        record["area"],
        record["distinctiveness"]),
        record["condition"]),
        record["strategic_significance"]),
        record["connectivity"])

\* the body of the loop for the record at position i: the range checks,
\* then the return of the product
UnitsOfRecord(unit_data, i, evs) ==
    LET v == ValidateRanges(unit_data[i], i - 1, UnitRanges, 1, evs)
    IN  IF v.result.kind = "raise" THEN v
        ELSE [result |-> Return(BiodiversityUnits(unit_data[i])),
              events |-> v.events]

\* a faulty calculate_biodiversity_units that computes from the last record
calculate_biodiversity_units_last(unit_data) ==
    LET t == validate_type_schema(unit_data, UnitTypeSchema)
    IN  IF t.result.kind = "raise" THEN t
        ELSE IF Len(unit_data) = 0
        THEN [result |-> Return(None), events |-> t.events]
        ELSE UnitsOfRecord(unit_data, Len(unit_data), t.events)

\* calculate_biodiversity_units(unit_data): the whole batch is type-checked;
\* the body of the loop returns in its first iteration, and a loop that
\* never runs leaves the function with None
calculate_biodiversity_units(unit_data) ==
    LET t == validate_type_schema(unit_data, UnitTypeSchema)
    IN  IF t.result.kind = "raise" THEN t
        ELSE IF Len(unit_data) = 0
        THEN [result |-> Return(None), events |-> t.events]
        ELSE UnitsOfRecord(unit_data, 1, t.events)

(***************************************************************************)
(* Inputs of calculate_biodiversity_units.                                 *)
(***************************************************************************)
UnitFields ==
    {"area", "distinctiveness", "condition", "strategic_significance",
     "connectivity"}

AreaValues ==
    {PyFloat(10, 1), PyFloat(1, 100), PyFloat(0, 1), PosInf, PyInt(10), Absent}

FactorValues == {PyFloat(1, 2), PyFloat(2, 1), Absent}

UnitFirsts ==
    {MakeRecord(f) :
        f \in {g \in [UnitFields -> AreaValues \cup FactorValues] :
                 /\ g["area"] \in AreaValues
                 /\ \A k \in UnitFields \ {"area"} : g[k] \in FactorValues}}

ValidUnit ==
    [area |-> PyFloat(2, 1), distinctiveness |-> PyFloat(1, 2),
     condition |-> PyFloat(1, 2), strategic_significance |-> PyFloat(1, 2),
     connectivity |-> PyFloat(1, 2)]

\* later records: valid, out of range, and of a type the schema refuses
UnitTails ==
    {ValidUnit, [ValidUnit EXCEPT !["condition"] = PyFloat(2, 1)],
     [ValidUnit EXCEPT !["condition"] = PyInt(1)]}

UnitArgs == [unit_data : Batches(UnitFirsts, UnitTails)]

InitUnits ==
    /\ fn = "calculate_biodiversity_units"
    /\ args0 \in UnitArgs

(***************************************************************************)
(* strategy_metrics: the risk ratios.                                      *)
(*                                                                         *)
(* A result is the dict {"metric", "value", "pass"}.  A ratio over a       *)
(* standard deviation is kept exactly as a float of class "sqrt"; the      *)
(* returns of the model are whole numbers, for which the float arithmetic  *)
(* of the means and sums is exact.                                         *)
(***************************************************************************)
\* annual_factor = 252
AnnualFactor == 252

\* {"metric": metric, "value": value, "pass": pass}
MetricResult(metric, value, pass) ==
    [t |-> "dict", metric |-> metric, value |-> value, pass |-> pass]

\* np.atleast_1d(returns).astype(float)
AsFloatArray(values) ==
    [i \in 1..Len(values) |->
        PyVal("float", values[i].c, values[i].n, values[i].d, "")]

\* returns - risk_free_rate, element by element
ExcessReturns(returns, risk_free_rate) ==
    LET arr == AsFloatArray(returns)
    IN  [i \in 1..Len(arr) |-> SubNum(arr[i], risk_free_rate)]

\* np.mean(xs): nan for an empty array
NpMean(xs) == IF Len(xs) = 0 THEN NaN ELSE Mean(xs)

\* np.sum(xs): 0.0 for an empty array
NpSum(xs) == SumNum(xs, 1)

\* np.std(xs, ddof=1) ** 2: nan for fewer than two elements
SampleVariance(xs) ==
    IF Len(xs) <= 1 THEN NaN
    ELSE LET m == Mean(xs)
             sq == [i \in 1..Len(xs) |->
                      MulNum(SubNum(xs[i], m), SubNum(xs[i], m))]
         IN  DivNum(SumNum(sq, 1), PyFloat(Len(xs) - 1, 1))

\* mean / sqrt(square), for a finite mean and a finite square > 0
RatioOverRoot(mean, square) ==
    LET q == DivNum(MulNum(mean, mean), square)
    IN  PyVal("float", "sqrt", Sign(mean) * q.n, q.d, "")

\* a faulty comparison, not (a < b), which lets nan pass
GeNum_not_less(a, b) ==
    ~(/\ a.c # "nan" /\ b.c # "nan"
      /\ LtNum(SignedSquare(a), SignedSquare(b)))

\* a >= b for floats of class fin, sqrt or nan: x -> sign(x) * x * x keeps
\* the order
GeNum(a, b) ==
    IF a.c = "nan" \/ b.c = "nan" THEN FALSE
    ELSE LeNum(SignedSquare(b), SignedSquare(a))

RECURSIVE Pow10(_)
Pow10(k) == IF k = 0 THEN 1 ELSE 10 * Pow10(k - 1)

\* the integer nearest to n/d for d > 0, a half going to the even neighbour
RoundHalfEven(n, d) ==
    LET low == n \div d
        rest == 2 * (n - low * d)
    IN  IF rest < d THEN low
        ELSE IF rest > d THEN low + 1
        ELSE IF low % 2 = 0 THEN low ELSE low + 1

\* the largest k with k * k <= n, searched between lo and hi
RECURSIVE RootBetween(_, _, _)
RootBetween(n, lo, hi) ==
    IF hi - lo <= 1 THEN lo
    ELSE LET mid == (lo + hi) \div 2
         IN  IF mid * mid <= n THEN RootBetween(n, mid, hi)
             ELSE RootBetween(n, lo, mid)

IntRoot(n) == RootBetween(n, 0, 46341)

\* round(x, ndigits) of a float: nan and the infinities are left alone
Round(x, ndigits) ==
    LET scale == Pow10(ndigits)
        s == IntRoot((4 * scale * scale * Abs(x.n)) \div x.d)
        exact == s * s * x.d = 4 * scale * scale * Abs(x.n)
        root == IF exact THEN RoundHalfEven(s, 2) ELSE (s + 1) \div 2
    IN  IF x.c \in {"nan", "pinf", "ninf"} THEN x
        ELSE IF x.c = "sqrt" THEN Fraction(Sign(x) * root, scale)
        ELSE Fraction(RoundHalfEven(x.n * scale, x.d), scale)

\* print(...)
Printed(text) == Event("print", -1, text)

\* check_sharpe_ratio(returns, risk_free_rate, threshold, verbose)
check_sharpe_ratio(returns, risk_free_rate, threshold, verbose) ==
    LET excess_returns == ExcessReturns(returns, risk_free_rate)
        variance == SampleVariance(excess_returns)
        sharpe_ratio ==
            IF LtNum(PyInt(0), variance)
            THEN RatioOverRoot(NpMean(excess_returns), variance)
            ELSE NaN
    IN  [result |-> Return(MetricResult("Sharpe Ratio", Round(sharpe_ratio, 3),
                                        GeNum(sharpe_ratio, threshold))),
         events |-> IF verbose THEN <<Printed("metric")>> ELSE <<>>]

\* np.maximum.accumulate(equity_curve)[i]
RunningMax(equity_curve, i) ==
    CHOOSE p \in {equity_curve[j] : j \in 1..i} :
        \A j \in 1..i : LeNum(equity_curve[j], p)

\* np.min(xs) of a non-empty array of finite floats
NpMin(xs) ==
    CHOOSE m \in {xs[j] : j \in 1..Len(xs)} :
        \A j \in 1..Len(xs) : LeNum(m, xs[j])

\* np.min of an empty array
ZeroSizeError ==
    Raise("ValueError", [NoMsg EXCEPT !.tmpl = "zero-size array to reduction operation"])

\* check_max_drawdown(equity_curve)
check_max_drawdown(equity_curve) ==
    LET curve == AsFloatArray(equity_curve)
        peak == [i \in 1..Len(curve) |-> RunningMax(curve, i)]
        drawdown == [i \in 1..Len(curve) |->
                       IF LtNum(PyInt(0), peak[i])
                       THEN DivNum(SubNum(curve[i], peak[i]), peak[i])
                       ELSE PyFloat(0, 1)]
        prints == <<Printed("Equity Curve"), Printed("Peak"),
                    Printed("Any zeros in peak")>>
    IN  IF Len(curve) = 0
        THEN [result |-> ZeroSizeError, events |-> prints]
        ELSE [result |-> Return(Round(MulNum(NpMin(drawdown), PyFloat(100, 1)), 2)),
              events |-> prints]

\* check_calmar_ratio(returns, risk_free_rate, threshold)
check_calmar_ratio(returns, risk_free_rate, threshold) ==
    LET excess_returns == ExcessReturns(returns, risk_free_rate)
        mean_return == NpMean(excess_returns)
        annualised_return == MulNum(mean_return, PyFloat(AnnualFactor, 1))
        drawn == check_max_drawdown(excess_returns)
        max_dd == drawn.result.value
        calmar_ratio ==
            IF ~EqNum(max_dd, PyInt(0)) THEN DivNum(annualised_return, max_dd)
            ELSE NaN
    IN  IF drawn.result.kind = "raise" THEN drawn
        ELSE [result |-> Return(MetricResult("Calmar Ratio", Round(calmar_ratio, 3),
                                             GeNum(calmar_ratio, threshold))),
              events |-> drawn.events]

\* check_sortino_ratio(returns, risk_free_rate, threshold)
check_sortino_ratio(returns, risk_free_rate, threshold) ==
    LET excess_returns == ExcessReturns(returns, risk_free_rate)
        downside_returns ==
            [i \in 1..Len(excess_returns) |->
                IF LeNum(excess_returns[i], PyInt(0)) THEN excess_returns[i]
                ELSE PyFloat(0, 1)]
        squares == [i \in 1..Len(downside_returns) |->
                      MulNum(downside_returns[i], downside_returns[i])]
        downside_square == NpMean(squares)
        sortino_ratio ==
            IF LtNum(PyInt(0), downside_square)
            THEN RatioOverRoot(NpMean(excess_returns), downside_square)
            ELSE NaN
    IN  [result |-> Return(MetricResult("Sortino Ratio", Round(sortino_ratio, 3),
                                        GeNum(sortino_ratio, threshold))),
         events |-> <<>>]

\* excess_returns[excess_returns >= 0]
Gains(excess_returns) ==
    SelectSeq(excess_returns, LAMBDA x : LeNum(PyInt(0), x))

\* excess_returns[excess_returns < 0]
Losses(excess_returns) ==
    SelectSeq(excess_returns, LAMBDA x : LtNum(x, PyInt(0)))

\* check_omega_ratio(returns, risk_free_rate, threshold)
check_omega_ratio(returns, risk_free_rate, threshold) ==
    LET excess_returns == ExcessReturns(returns, risk_free_rate)
        gains == Gains(excess_returns)
        losses == Losses(excess_returns)
        omega_ratio ==
            IF LtNum(PyInt(0), NpSum(losses))
            THEN DivNum(NpSum(gains), NpSum(losses))
            ELSE NaN
    IN  [result |-> Return(MetricResult("Omega Ratio", Round(omega_ratio, 3),
                                        GeNum(omega_ratio, threshold))),
         events |-> <<>>]

\* the early results of check_cvar
NoCVaR == MetricResult("CVaR", NaN, FALSE)

\* check_cvar(returns, risk_free_rate, threshold)
check_cvar(returns, risk_free_rate, threshold) ==
    LET excess_returns == ExcessReturns(returns, risk_free_rate)
        sorted_returns == SortSeq(excess_returns, LAMBDA a, b : LtNum(a, b))
        n == Len(sorted_returns)
        threshold_index == n \div 20
        cvar_value == NpMean(SubSeq(sorted_returns, 1, threshold_index))
    IN  IF n = 0
        THEN [result |-> Return(NoCVaR),
              events |-> <<Event("warn", -1, "No returns data provided")>>]
        ELSE IF threshold_index >= n
        THEN [result |-> Return(NoCVaR),
              events |-> <<Event("warn", -1, "Not enough data")>>]
        ELSE [result |-> Return(MetricResult("CVaR", Round(cvar_value, 3),
                                             GeNum(cvar_value, threshold))),
              events |-> <<>>]

(***************************************************************************)
(* Inputs of the risk ratios: series of up to MaxLen whole returns, and    *)
(* one series of twenty, the shortest with a 5% tail.                      *)
(***************************************************************************)
ReturnValues == {PyFloat(-1, 1), PyFloat(0, 1), PyFloat(1, 1), PyFloat(2, 1)}

\* nineteen gains of 1.0 and one loss of 1.0
LongReturns ==
    [i \in 1..20 |-> IF i = 7 THEN PyFloat(-1, 1) ELSE PyFloat(1, 1)]

ReturnSeries == SeqsUpTo(ReturnValues, MaxLen) \cup {LongReturns}

RiskFreeRates == {PyFloat(0, 1), PyFloat(1, 1)}

Thresholds == {PyFloat(-1, 1), PyFloat(0, 1), PyFloat(1, 1)}

RatioNames ==
    {"check_calmar_ratio", "check_sortino_ratio", "check_omega_ratio",
     "check_cvar"}

RatioArgs ==
    [returns : ReturnSeries, risk_free_rate : RiskFreeRates,
     threshold : Thresholds]

InitRatio ==
    /\ fn \in RatioNames
    /\ args0 \in RatioArgs

SharpeArgs ==
    [returns : ReturnSeries, risk_free_rate : RiskFreeRates,
     threshold : Thresholds, verbose : BOOLEAN]

InitSharpe ==
    /\ fn = "check_sharpe_ratio"
    /\ args0 \in SharpeArgs

InitDrawdown ==
    /\ fn = "check_max_drawdown"
    /\ args0 \in [equity_curve : ReturnSeries]

Init ==
    /\ pc = "call"
    /\ \/ InitRange
       \/ InitArray
       \/ InitSchema
       \/ InitSpecies
       \/ InitHabitat
       \/ InitPrepare
       \/ InitRichness
       \/ InitEndemism
       \/ InitShannon
       \/ InitUnits
       \/ InitSharpe
       \/ InitDrawdown
       \/ InitRatio
    /\ args = args0
    /\ result = NoResult
    /\ events = <<>>
    /\ estimators = NoEstimators
    /\ calls = <<>>

ValidateRange ==
    /\ pc = "call"
    /\ fn = "validate_range"
    /\ result' = validate_range(args.value, args.min_val, args.max_val, args.name)
    /\ events' = Append(events, Event("range", -1, args.name))
    /\ pc' = "done"
    /\ UNCHANGED <<fn, args0, args, estimators, calls>>

ValidateArrayValues ==
    /\ pc = "call"
    /\ fn = "validate_array_values"
    /\ result' = validate_array_values(args.values, args.min_val, args.max_val,
                                       args.name)
    /\ args' = ArrayArgsAfter(args)
    /\ events' = Append(events, Event("range", -1, args.name))
    /\ pc' = "done"
    /\ UNCHANGED <<fn, args0, estimators, calls>>

ValidateTypeSchema ==
    /\ pc = "call"
    /\ fn = "validate_type_schema"
    /\ LET out == validate_type_schema(args.inputs, args.type_schema)
       IN  /\ result' = out.result
           /\ events' = out.events
    /\ pc' = "done"
    /\ UNCHANGED <<fn, args0, args, estimators, calls>>

CalculateSpeciesRichness ==
    /\ pc = "call"
    /\ fn = "calculate_species_richness"
    /\ LET out == calculate_species_richness(args.data, args.strict)
       IN  /\ result' = out.result
           /\ events' = out.events
    /\ pc' = "done"
    /\ UNCHANGED <<fn, args0, args, estimators, calls>>

CalculateHabitatConditionScore ==
    /\ pc = "call"
    /\ fn = "calculate_habitat_condition_score"
    /\ LET out == calculate_habitat_condition_score(args.data)
       IN  /\ result' = out.result
           /\ events' = out.events
    /\ pc' = "done"
    /\ UNCHANGED <<fn, args0, args, estimators, calls>>

PrepareTraitMatrix ==
    /\ pc = "call"
    /\ fn = "prepare_trait_matrix"
    /\ LET out == prepare_trait_matrix(args.trait_data, args.trait_count)
       IN  /\ result' = out.result
           /\ events' = out.events
           /\ estimators' = out.estimators
    /\ pc' = "done"
    /\ UNCHANGED <<fn, args0, args, calls>>

CalculateFunctionalRichness ==
    /\ pc = "call"
    /\ fn = "calculate_functional_richness"
    /\ LET out == calculate_functional_richness(args.trait_data, args.trait_count)
       IN  /\ result' = out.result
           /\ events' = out.events
           /\ estimators' = out.estimators
    /\ pc' = "done"
    /\ UNCHANGED <<fn, args0, args, calls>>

CalculateEndemismIndex ==
    /\ pc = "call"
    /\ fn = "calculate_endemism_index"
    /\ LET out == calculate_endemism_index(args.endemism_data)
       IN  /\ result' = out.result
           /\ events' = out.events
    /\ pc' = "done"
    /\ UNCHANGED <<fn, args0, args, estimators, calls>>

CalculateShannonWienerIndexBatch ==
    /\ pc = "call"
    /\ fn = "calculate_shannon_wiener_index_batch"
    /\ LET out == calculate_shannon_wiener_index_batch(args.species_counts,
                                                       args.strict)
       IN  /\ result' = out.result
           /\ events' = out.events
    /\ pc' = "done"
    /\ UNCHANGED <<fn, args0, args, estimators, calls>>

CalculateBiodiversityUnits ==
    /\ pc = "call"
    /\ fn = "calculate_biodiversity_units"
    /\ LET out == calculate_biodiversity_units(args.unit_data)
       IN  /\ result' = out.result
           /\ events' = out.events
    /\ pc' = "done"
    /\ UNCHANGED <<fn, args0, args, estimators, calls>>

CheckSharpeRatio ==
    /\ pc = "call"
    /\ fn = "check_sharpe_ratio"
    /\ LET out == check_sharpe_ratio(args.returns, args.risk_free_rate,
                                     args.threshold, args.verbose)
       IN  /\ result' = out.result
           /\ events' = out.events
    /\ pc' = "done"
    /\ UNCHANGED <<fn, args0, args, estimators, calls>>

CheckMaxDrawdown ==
    /\ pc = "call"
    /\ fn = "check_max_drawdown"
    /\ LET out == check_max_drawdown(args.equity_curve)
       IN  /\ result' = out.result
           /\ events' = out.events
    /\ pc' = "done"
    /\ UNCHANGED <<fn, args0, args, estimators, calls>>

CheckCalmarRatio ==
    /\ pc = "call"
    /\ fn = "check_calmar_ratio"
    /\ LET out == check_calmar_ratio(args.returns, args.risk_free_rate,
                                     args.threshold)
       IN  /\ result' = out.result
           /\ events' = out.events
    /\ pc' = "done"
    /\ UNCHANGED <<fn, args0, args, estimators, calls>>

CheckSortinoRatio ==
    /\ pc = "call"
    /\ fn = "check_sortino_ratio"
    /\ LET out == check_sortino_ratio(args.returns, args.risk_free_rate,
                                      args.threshold)
       IN  /\ result' = out.result
           /\ events' = out.events
    /\ pc' = "done"
    /\ UNCHANGED <<fn, args0, args, estimators, calls>>

CheckOmegaRatio ==
    /\ pc = "call"
    /\ fn = "check_omega_ratio"
    /\ LET out == check_omega_ratio(args.returns, args.risk_free_rate,
                                    args.threshold)
       IN  /\ result' = out.result
           /\ events' = out.events
    /\ pc' = "done"
    /\ UNCHANGED <<fn, args0, args, estimators, calls>>

CheckCVaR ==
    /\ pc = "call"
    /\ fn = "check_cvar"
    /\ LET out == check_cvar(args.returns, args.risk_free_rate, args.threshold)
       IN  /\ result' = out.result
           /\ events' = out.events
    /\ pc' = "done"
    /\ UNCHANGED <<fn, args0, args, estimators, calls>>

Next ==
    \/ ValidateRange
    \/ ValidateArrayValues
    \/ ValidateTypeSchema
    \/ CalculateSpeciesRichness
    \/ CalculateHabitatConditionScore
    \/ PrepareTraitMatrix
    \/ CalculateFunctionalRichness
    \/ CalculateEndemismIndex
    \/ CalculateShannonWienerIndexBatch
    \/ CalculateBiodiversityUnits
    \/ CheckSharpeRatio
    \/ CheckMaxDrawdown
    \/ CheckCalmarRatio
    \/ CheckSortinoRatio
    \/ CheckOmegaRatio
    \/ CheckCVaR

Spec == Init /\ [][Next]_vars

(***************************************************************************)
(* A caller that calls prepare_trait_matrix several times in a row.        *)
(***************************************************************************)
InitCalls ==
    /\ pc = "call"
    /\ fn = "prepare_trait_matrix"
    /\ args0 \in CallArgs
    /\ args = args0
    /\ result = NoResult
    /\ events = <<>>
    /\ estimators = NoEstimators
    /\ calls = <<>>

\* the caller notes how the call ended and calls again
CallAgain ==
    /\ pc = "done"
    /\ fn = "prepare_trait_matrix"
    /\ Len(calls) + 1 < MaxCalls
    /\ calls' = Append(calls, [args |-> args0, result |-> result])
    /\ args0' \in CallArgs
    /\ args' = args0'
    /\ result' = NoResult
    /\ events' = <<>>
    /\ pc' = "call"
    /\ UNCHANGED <<fn, estimators>>

NextCalls ==
    \/ PrepareTraitMatrix
    \/ CallAgain

SpecCalls == InitCalls /\ [][NextCalls]_vars

(***************************************************************************)
(* Properties of validate_range.                                           *)
(***************************************************************************)
RangeDone == pc = "done" /\ fn = "validate_range"

RangeError(r) ==
    /\ r.kind = "raise"
    /\ r.exc = "ValueError"

\* C1: validate_range raises the range error, naming the field and the
\* value, for every finite value strictly below min_val or strictly above
\* max_val, and returns None for every value with min_val <= value <= max_val,
\* the two bounds included.
C1_RangeInclusive ==
    (RangeDone /\ IsNumber(args0.value)) =>
        /\ (IsFinite(args0.value)
            /\ (\/ LtNum(args0.value, args0.min_val)
                \/ LtNum(args0.max_val, args0.value)))
           => /\ RangeError(result)
              /\ result.msg.tmpl = "must be between"
              /\ result.msg.key = args0.name
              /\ result.msg.value = args0.value
        /\ (LeNum(args0.min_val, args0.value) /\ LeNum(args0.value, args0.max_val))
           => result = Return(None)

\* C1 witness: a value exactly on the upper bound has been accepted
C1_Witness ==
    /\ RangeDone
    /\ args0.value = PyFloat(1, 1)
    /\ args0.min_val = PyFloat(0, 1)
    /\ args0.max_val = PyFloat(1, 1)
    /\ result.kind = "return"

\* C2: a nan value never passes validate_range: it raises the range error
\* whatever the bounds are.
C2_NaNRejected ==
    (RangeDone /\ args0.value = NaN) => RangeError(result)

\* C2 witness: nan has been checked against [0.0, 1.0] and rejected
C2_Witness ==
    /\ RangeDone
    /\ args0.value = NaN
    /\ args0.min_val = PyFloat(0, 1)
    /\ args0.max_val = PyFloat(1, 1)
    /\ result.kind = "raise"

\* C3: validate_range rejects every non-finite value (nan, +inf, -inf), also
\* when the declared bound is itself infinite.
C3_NonFiniteRejected ==
    (RangeDone /\ IsNumber(args0.value) /\ ~IsFinite(args0.value))
        => RangeError(result)

(***************************************************************************)
(* Properties of validate_array_values.                                    *)
(***************************************************************************)
ArrayDone == pc = "done" /\ fn = "validate_array_values"

\* the element is not inside [min_val, max_val]
Outside(v, min_val, max_val) == ~(LeNum(min_val, v) /\ LeNum(v, max_val))

\* C4: validate_array_values raises the range error if and only if at least
\* one element is outside [min_val, max_val].
C4_RaisesIffSomeOutside ==
    ArrayDone =>
        (RangeError(result) <=>
            \E i \in 1..Len(args0.values) :
                Outside(args0.values[i], args0.min_val, args0.max_val))

\* positions of the caller's elements below min_val or above max_val
Offending ==
    {i \in 1..Len(args0.values) :
        \/ LtNum(args0.values[i], args0.min_val)
        \/ LtNum(args0.max_val, args0.values[i])}

\* C5: when validate_array_values raises, its one error lists exactly the
\* caller's elements that are below min_val or above max_val, in input order:
\* the k-th listed value equals the k-th offending element.
C5_ListsEveryOffender ==
    (ArrayDone /\ result.kind = "raise") =>
        /\ Len(result.msg.list) = Cardinality(Offending)
        /\ \A k \in 1..Len(result.msg.list) :
             \E i \in Offending :
                /\ Cardinality({j \in Offending : j < i}) = k - 1
                /\ EqNum(result.msg.list[k], args0.values[i])

\* C5 witness: an error has been raised that lists two offending elements
\* of a sequence that also holds an in-range element
C5_Witness ==
    /\ ArrayDone
    /\ result.kind = "raise"
    /\ Len(result.msg.list) = 2
    /\ Len(args0.values) = 3

(***************************************************************************)
(* Properties of validate_type_schema.                                     *)
(***************************************************************************)
SchemaDone == pc = "done" /\ fn = "validate_type_schema"

\* record i of the caller's list holds the field of schema item j
Present(i, j) == args0.type_schema[j].key \in DOMAIN args0.inputs[i]

\* ... and the value is of one of the item's accepted types
WellTyped(i, j) ==
    /\ Present(i, j)
    /\ IsInstance(args0.inputs[i][args0.type_schema[j].key],
                  args0.type_schema[j].types)

\* the (record, schema item) pairs that violate the schema
Violations ==
    {v \in (1..Len(args0.inputs)) \X (1..Len(args0.type_schema)) :
        ~WellTyped(v[1], v[2])}

\* the records with at least one violation
ViolatingRecords == {v[1] : v \in Violations}

\* C6: validate_type_schema returns None if and only if every record holds
\* every schema field with a value of an accepted type; when exactly one
\* (record, field) pair violates the schema, a missing field raises the
\* missing-field error and a mis-typed one the type error, each naming the
\* field.
C6_AcceptsIffAllValid ==
    SchemaDone =>
        /\ result = Return(None) <=> Violations = {}
        /\ Violations # {} => result.kind = "raise"
        /\ Cardinality(Violations) = 1 =>
             LET v == CHOOSE x \in Violations : TRUE
             IN  /\ result.msg.key = args0.type_schema[v[2]].key
                 /\ IF Present(v[1], v[2])
                    THEN result.exc = "TypeError" /\ result.msg.tmpl = "has type"
                    ELSE /\ result.exc = "ValueError"
                         /\ result.msg.tmpl = "is missing input"

\* C6 witness: a two-record batch whose only violation is a mis-typed field
\* of the second record has been rejected
C6_Witness ==
    /\ SchemaDone
    /\ Len(args0.inputs) = 2
    /\ Cardinality(Violations) = 1
    /\ ViolatingRecords = {2}
    /\ result.exc = "TypeError"

\* the kind of the error validate_range raises for an out-of-range value
OutOfRangeKind ==
    validate_range(PyFloat(2, 1), PyFloat(0, 1), PyFloat(1, 1), "area").exc

\* the kind of the error validate_type_schema raises for a mis-typed field
WrongTypeKind == WrongTypeError(1, "area", PyStr("x"), <<"float">>).exc

\* C7 (as stated): the error raised for a missing field is of a kind distinct
\* from the kind raised for a wrong type and from the kind raised for an
\* out-of-range value.
C7_KindsAllDistinct ==
    (SchemaDone /\ result.kind = "raise" /\ result.msg.tmpl = "is missing input")
        => /\ result.exc # WrongTypeKind
           /\ result.exc # OutOfRangeKind

\* C7 (amended): the wrong-type error is a TypeError, distinct in kind from
\* the missing-field error and from the out-of-range error, which are both
\* ValueError and differ only in their message.
C7_TypeKindDistinct ==
    /\ (SchemaDone /\ Violations # {})
         => /\ (\A v \in Violations : ~Present(v[1], v[2]))
                 => /\ result.exc = "ValueError"
                    /\ result.msg.tmpl = "is missing input"
            /\ (\A v \in Violations : Present(v[1], v[2]))
                 => /\ result.exc = "TypeError"
                    /\ result.msg.tmpl = "has type"
            /\ result.exc = "TypeError" <=> result.msg.tmpl = "has type"
    /\ (RangeDone /\ IsNumber(args0.value)
        /\ Outside(args0.value, args0.min_val, args0.max_val))
         => /\ result.exc = "ValueError"
            /\ result.msg.tmpl = "must be between"

\* C7 witness: a batch whose violations are all missing fields has been
\* rejected with a ValueError
C7_Witness ==
    /\ SchemaDone
    /\ Violations # {}
    /\ \A v \in Violations : ~Present(v[1], v[2])
    /\ result.exc = "ValueError"

\* the 0-based indices of the records an error of this call identifies
ReportedRecords ==
    IF result.kind = "raise" THEN {result.msg.index} ELSE {}

\* C8 (as stated): every violating record of the batch gets a violation
\* reported that identifies it by its index in the input list.
C8_EveryViolationReported ==
    SchemaDone =>
        \A i \in ViolatingRecords : RecordIndex(i) \in ReportedRecords

\* the first violating record, in input order
FirstViolating == CHOOSE i \in ViolatingRecords : \A k \in ViolatingRecords : i <= k

\* C8 (amended): validate_type_schema stops at the first violation: it raises
\* one error, which identifies the first violating record by its 0-based
\* index in the input list; every record before it is checked against every
\* schema field and no record after it is checked at all.
C8_StopsAtFirstViolation ==
    (SchemaDone /\ ViolatingRecords # {}) =>
        /\ result.kind = "raise"
        /\ result.msg.index = FirstViolating - 1
        /\ \A e \in {events[k] : k \in 1..Len(events)} : e.rec <= FirstViolating - 1
        /\ \A i \in 1..(FirstViolating - 1) :
             \A j \in 1..Len(args0.type_schema) :
                \E k \in 1..Len(events) :
                    events[k] = Event("type", i - 1, args0.type_schema[j].key)

\* C8 witness: two records violate the schema and an error has been raised
C8_Witness ==
    /\ SchemaDone
    /\ ViolatingRecords = {1, 2}
    /\ result.kind = "raise"

(***************************************************************************)
(* Order of validation.                                                    *)
(***************************************************************************)
MetricDone ==
    /\ pc = "done"
    /\ fn \in {"calculate_species_richness", "calculate_habitat_condition_score"}

\* the range checks and the accepted types a metric function declares
DeclaredRanges ==
    IF fn = "calculate_species_richness" THEN SpeciesRanges ELSE HabitatRanges

DeclaredTypes ==
    IF fn = "calculate_species_richness" THEN <<"int", "float">>
    ELSE <<"float", "float">>

\* the fields of a metric function's first record that are present with a
\* value of a type that is not accepted
MisTypedFields ==
    {k \in 1..Len(DeclaredRanges) :
        /\ DeclaredRanges[k].key \in DOMAIN args0.data[1]
        /\ ~IsInstance(args0.data[1][DeclaredRanges[k].key], DeclaredTypes)}

\* ... and those present with a number outside the declared range
OutOfRangeFields ==
    {k \in 1..Len(DeclaredRanges) :
        /\ DeclaredRanges[k].key \in DOMAIN args0.data[1]
        /\ IsNumber(args0.data[1][DeclaredRanges[k].key])
        /\ Outside(args0.data[1][DeclaredRanges[k].key],
                   DeclaredRanges[k].lo, DeclaredRanges[k].hi)}

\* the record an error identifies has a missing field: the error is the
\* missing-field error, wherever the schema declares that field
MissingPreferred ==
    (SchemaDone /\ result.kind = "raise") =>
        ((\E j \in 1..Len(args0.type_schema) : ~Present(result.msg.index + 1, j))
            => result.msg.tmpl = "is missing input")

\* the record has a mis-typed field and an out-of-range field: the error is
\* not the range error
TypePreferred ==
    (MetricDone /\ Len(args0.data) > 0 /\ MisTypedFields # {}
     /\ OutOfRangeFields # {})
        => result.msg.tmpl # "must be between"

\* every range comparison follows a presence check and a type check of the
\* same field of the same record
RangeAfterPresenceAndType ==
    MetricDone =>
        \A k \in 1..Len(events) :
            events[k].op = "range" =>
                /\ \E p \in 1..(k - 1) :
                     events[p] = Event("presence", events[k].rec, events[k].key)
                /\ \E t \in 1..(k - 1) :
                     events[t] = Event("type", events[k].rec, events[k].key)

\* C9: validation is ordered presence, then type, then range: a missing field
\* is reported in preference to a mis-typed one and a mis-typed one in
\* preference to an out-of-range one, whatever the order of the schema, and
\* no range comparison is evaluated on a value that has not passed the
\* presence and type checks.
C9_PresenceTypeRange ==
    /\ MissingPreferred
    /\ TypePreferred
    /\ RangeAfterPresenceAndType

(***************************************************************************)
(* Frame of the validators.                                                *)
(***************************************************************************)
ValidatorDone ==
    /\ pc = "done"
    /\ fn \in {"validate_range", "validate_array_values", "validate_type_schema"}

\* C10: the validators leave the caller's value, value sequence, records and
\* schema as they were at the call, whether they return or raise, and a
\* successful validation returns None.
C10_ValidatorsPure ==
    ValidatorDone =>
        /\ args = args0
        /\ result.kind = "return" => result.value = None

\* C10 witness: validate_array_values has converted a mixed int/float
\* sequence to an array and raised
C10_Witness ==
    /\ pc = "done"
    /\ fn = "validate_array_values"
    /\ AsArray(args0.values) # args0.values
    /\ result.kind = "raise"

(***************************************************************************)
(* Properties of prepare_trait_matrix and calculate_functional_richness.   *)
(***************************************************************************)
PrepareDone == pc = "done" /\ fn = "prepare_trait_matrix"

RichnessDone == pc = "done" /\ fn = "calculate_functional_richness"

TraitDone == PrepareDone \/ RichnessDone

\* the fields every record of the batch must hold
RequiredTraitKeys ==
    {"species_id", "abundance"}
    \cup {TraitNames[k] : k \in 1..args0.trait_count}

\* the error came from validate_type_schema
SchemaError(r) ==
    /\ r.kind = "raise"
    /\ r.msg.tmpl \in {"is missing input", "has type"}

\* a number in the everyday sense: an int or a float
NumericValue(v) == v.t \in {"int", "float"}

\* every record holds every required field, abundance a number, the traits
\* and the species id a number or a string
NumericOrStringBatch ==
    \A i \in 1..Len(args0.trait_data) : \A key \in RequiredTraitKeys :
        /\ key \in DOMAIN args0.trait_data[i]
        /\ \/ NumericValue(args0.trait_data[i][key])
           \/ key # "abundance" /\ args0.trait_data[i][key].t = "str"

\* C11: a batch whose records hold every required field, with an int or a
\* float as abundance and an int, a float or a str as every trait and as the
\* species id, passes the schema validation of prepare_trait_matrix.
C11_IntegersAccepted ==
    PrepareDone /\ NumericOrStringBatch => ~SchemaError(result)

\* some record lacks a required field
MissingSome ==
    \E i \in 1..Len(args0.trait_data) : \E key \in RequiredTraitKeys :
        key \notin DOMAIN args0.trait_data[i]

\* some record holds a required field with a value the schema refuses
RefusedSome ==
    LET schema == TraitTypeSchema(args0.trait_count)
    IN  \E i \in 1..Len(args0.trait_data) : \E j \in 1..Len(schema) :
            /\ schema[j].key \in DOMAIN args0.trait_data[i]
            /\ ~IsInstance(args0.trait_data[i][schema[j].key], schema[j].types)

\* the steps that follow validation
EncodingOps == {"categorical", "continuous", "fit_transform", "hstack", "ConvexHull"}

Encoded == \E a \in 1..Len(events) : events[a].op \in EncodingOps

\* C12: prepare_trait_matrix and calculate_functional_richness validate the
\* whole batch before they encode anything: when a record lacks species_id,
\* abundance or one of trait_1..trait_N, or holds one of them with a refused
\* type, the call raises the validator's error (ValueError when fields are
\* only missing, TypeError when values are only mistyped), no encoding step
\* has run and nothing is returned; and when encoding has run, every field of
\* every record was checked before its first step.
C12_ValidatedBeforeEncoding ==
    TraitDone =>
        /\ MissingSome \/ RefusedSome => SchemaError(result) /\ ~Encoded
        /\ MissingSome /\ ~RefusedSome =>
              result.exc = "ValueError" /\ result.msg.tmpl = "is missing input"
        /\ RefusedSome /\ ~MissingSome =>
              result.exc = "TypeError" /\ result.msg.tmpl = "has type"
        /\ Encoded =>
              LET first == CHOOSE a \in 1..Len(events) :
                               /\ events[a].op \in EncodingOps
                               /\ \A b \in 1..(a - 1) : events[b].op \notin EncodingOps
              IN  /\ \A b \in 1..Len(events) :
                        events[b].op \in {"presence", "type"} <=> b < first
                  /\ first - 1 = 2 * Len(args0.trait_data) * (2 + args0.trait_count)

\* C12 witness: calculate_functional_richness has raised TypeError for a
\* batch whose second record holds a string as abundance
C12_Witness ==
    /\ RichnessDone
    /\ Len(args0.trait_data) = 2
    /\ "abundance" \in DOMAIN args0.trait_data[2]
    /\ args0.trait_data[2]["abundance"].t = "str"
    /\ ~MissingSome
    /\ result.exc = "TypeError"
    /\ ~Encoded

\* C13: on an empty list of records, with any trait_count of one or more,
\* prepare_trait_matrix and calculate_functional_richness raise KeyError, an
\* error that is not one of the validator's, and return nothing.
C13_EmptyBatchKeyError ==
    TraitDone /\ args0.trait_data = <<>> =>
        /\ result.kind = "raise"
        /\ result.exc = "KeyError"
        /\ ~SchemaError(result)

\* C13 witness: calculate_functional_richness has raised KeyError on an empty
\* list with trait_count = 2
C13_Witness ==
    /\ RichnessDone
    /\ args0.trait_data = <<>>
    /\ args0.trait_count = 2
    /\ result.exc = "KeyError"

\* the batch passes validation and the frame holds every trait column: it
\* is not empty and none of its records lacks a field or holds a refused one
ValidBatch ==
    /\ args0.trait_data # <<>>
    /\ ~MissingSome
    /\ ~RefusedSome

\* some record holds a string in the column
HasStr(key) ==
    \E i \in 1..Len(args0.trait_data) : args0.trait_data[i][key].t = "str"

\* the body has run the step on the column
Happened(op, key) == \E a \in 1..Len(events) : events[a] = Event(op, -1, key)

\* the positions of the traits that hold a string somewhere in the batch
StringTraits == {k \in 1..args0.trait_count : HasStr(TraitNames[k])}

\* C14: for a batch that passes validation, a trait column is classified as
\* categorical if and only if at least one of its values is a string, and as
\* continuous otherwise, so one string among numbers makes the whole column
\* categorical; a batch with no string trait has no categorical column and
\* prepare_trait_matrix returns exactly trait_count columns for it.
C14_CategoricalIffSomeString ==
    TraitDone /\ ValidBatch =>
        /\ \A k \in 1..args0.trait_count :
              /\ Happened("categorical", TraitNames[k]) <=> k \in StringTraits
              /\ Happened("continuous", TraitNames[k]) <=> k \notin StringTraits
        /\ PrepareDone /\ StringTraits = {} =>
              /\ result.kind = "return"
              /\ result.value.shape[2] = args0.trait_count

\* C14 witness: prepare_trait_matrix has classified trait_1 as categorical
\* for three records of which exactly one holds a string there
C14_Witness ==
    /\ PrepareDone
    /\ ValidBatch
    /\ Len(args0.trait_data) = 3
    /\ Cardinality({i \in 1..3 : args0.trait_data[i]["trait_1"].t = "str"}) = 1
    /\ Happened("categorical", "trait_1")
    /\ ~Happened("continuous", "trait_1")

\* the row that encodes record i: the indicator block of every categorical
\* trait, then the standardized value of every continuous trait
RowOf(i) ==
    LET trait_fields == TraitFields(args0.trait_count)
        cat_cols == CatCols(args0.trait_data, trait_fields)
        cont_cols == ContCols(args0.trait_data, trait_fields)
        oh == OneHotFit(OneHotEncoder(NoEstimators.oh), args0.trait_data, cat_cols)
    IN  Flatten([k \in 1..Len(cat_cols) |->
                    OneHot(args0.trait_data[i][cat_cols[k]],
                           Categories(oh, cat_cols[k]))], 1)
        \o [k \in 1..Len(cont_cols) |->
               StandardScaleColumn(Column(args0.trait_data, cont_cols[k]),
                                   Column(args0.trait_data, cont_cols[k]))[i]]

\* C15: for every non-empty batch that passes validation prepare_trait_matrix
\* returns a matrix with exactly one row per record, in input order, row i
\* being the encoding of record i.
C15_OneRowPerRecord ==
    PrepareDone /\ ValidBatch =>
        /\ result.kind = "return"
        /\ result.value.shape[1] = Len(args0.trait_data)
        /\ Len(result.value.data) = Len(args0.trait_data)
        /\ \A i \in 1..Len(args0.trait_data) : result.value.data[i] = RowOf(i)

\* the number of distinct values over the categorical traits
CategoryCount ==
    Cardinality({<<k, args0.trait_data[i][TraitNames[k]]>> :
                    k \in StringTraits, i \in 1..Len(args0.trait_data)})

\* the columns of the trait matrix of the batch: one per distinct value of
\* every categorical trait and one per continuous trait
ColumnCount == CategoryCount + (args0.trait_count - Cardinality(StringTraits))

\* C16: for every non-empty batch that passes validation the matrix has as
\* many columns as the categorical traits have distinct values plus one per
\* continuous trait, and every one-hot column comes before every
\* standardized column.
C16_ColumnLayout ==
    PrepareDone /\ ValidBatch =>
        /\ result.kind = "return"
        /\ result.value.shape[2] = ColumnCount
        /\ \A i \in 1..Len(result.value.data) : \A k \in 1..ColumnCount :
              result.value.data[i][k].c = "sqrt" <=> k > CategoryCount

\* C17: prepare_trait_matrix leaves the caller's batch as it was, and a call
\* ends as every earlier call of the same caller with the same batch and
\* trait_count ended, with the same matrix or the same error, whatever calls
\* were made in between.
C17_SameInputSameOutcome ==
    PrepareDone =>
        /\ args = args0
        /\ \A a \in 1..Len(calls) :
              calls[a].args = args0 => calls[a].result = result

\* C17 witness: the third call has returned a matrix for the batch of the
\* first call, after a second call with another batch that was scaled too
C17_Witness ==
    /\ PrepareDone
    /\ Len(calls) = 2
    /\ calls[1].args = args0
    /\ calls[2].args # args0
    /\ calls[2].result.kind = "return"
    /\ result.kind = "return"
    /\ Len(args0.trait_data) = 2

\* C18: for every batch that passes validation and has at most as many
\* records as its trait matrix has columns, calculate_functional_richness
\* returns exactly 0.0, raises nothing and builds no hull.
C18_ZeroWhenRowsAtMostColumns ==
    RichnessDone /\ ValidBatch /\ Len(args0.trait_data) <= ColumnCount =>
        /\ result = Return(PyFloat(0, 1))
        /\ ~Happened("ConvexHull", "")

\* C19: whenever calculate_functional_richness returns 0.0 without building
\* a hull, it has logged a message that contains "insufficient rank".
C19_InsufficientRankLogged ==
    RichnessDone /\ result = Return(PyFloat(0, 1)) /\ ~Happened("ConvexHull", "") =>
        \E a \in 1..Len(events) :
            events[a].op = "log" /\ events[a].key = "insufficient rank"

\* C20: when calculate_functional_richness has attempted the hull, it
\* returns: a failure of the hull construction is caught and answered with
\* 0.0, never raised to the caller.
C20_HullFailureCaught ==
    RichnessDone /\ Happened("ConvexHull", "") =>
        /\ result.kind = "return"
        /\ result.exc # "QhullError"

\* some record of the batch holds a negative number as abundance
NegativeAbundance ==
    \E i \in 1..Len(args0.trait_data) :
        /\ NumericValue(args0.trait_data[i]["abundance"])
        /\ LtNum(args0.trait_data[i]["abundance"], PyInt(0))

\* C21: for a batch that passes validation and holds a record with a negative
\* abundance, calculate_functional_richness returns a value, raises nothing,
\* and has emitted a warning that contains "negative abundance".
C21_NegativeAbundanceWarned ==
    RichnessDone /\ ValidBatch /\ NegativeAbundance =>
        /\ result.kind = "return"
        /\ \E a \in 1..Len(events) :
               events[a].op = "warn" /\ events[a].key = "negative abundance"

\* the number of decimal places the rounding keeps
DecimalPlaces == 10

\* n with up to k factors p removed
RECURSIVE StripFactor(_, _, _)
StripFactor(n, p, k) ==
    IF k = 0 \/ n % p # 0 THEN n ELSE StripFactor(n \div p, p, k - 1)

\* the fraction with denominator d (in lowest terms) has at most places
\* decimal places: d divides 10^places
DecimalDenominator(d, places) ==
    StripFactor(StripFactor(d, 2, places), 5, places) = 1

PerfectSquare(n) == \E k \in 0..n : k * k = n

\* v is a number with at most places decimal places, that is, round(v,
\* places) leaves it as it is
RoundedTo(v, places) ==
    CASE v.c = "fin" -> DecimalDenominator(v.d, places)
      [] v.c = "sqrt" -> /\ PerfectSquare(Abs(v.n))
                         /\ PerfectSquare(v.d)
                         /\ DecimalDenominator(ISqrt(v.d), places)
      [] OTHER -> FALSE

NonNegative(v) == v.t = "float" /\ v.c \in {"fin", "sqrt"} /\ v.n >= 0

\* C22: every value calculate_functional_richness returns is a non-negative
\* number rounded to DecimalPlaces decimal places (so a volume below that
\* precision would come back as exactly 0.0).
C22_RoundedNonNegative ==
    RichnessDone /\ result.kind = "return" =>
        /\ NonNegative(result.value)
        /\ RoundedTo(result.value, DecimalPlaces)

SpeciesDone == pc = "done" /\ fn = "calculate_species_richness"

\* q is the quotient a / b of the numbers a and b, b # 0, as Python's true
\* division gives it: a float, with inf / inf undefined (NaN)
IsQuotient(q, a, b) ==
    /\ q.t = "float"
    /\ CASE a.c = "fin" /\ b.c = "fin" ->
               q.c = "fin" /\ q.n * b.n * a.d = a.n * b.d * q.d
         [] a.c = "fin" /\ b.c # "fin" -> q.c = "fin" /\ q.n = 0
         [] a.c # "fin" /\ b.c = "fin" ->
               q.c = (IF (b.n > 0) = (a.c = "pinf") THEN "pinf" ELSE "ninf")
         [] OTHER -> q.c = "nan"

\* the first record holds a number >= 0 as total_species and a number as area
CountedSpecies ==
    /\ Len(args0.data) > 0
    /\ {"total_species", "area"} \subseteq DOMAIN args0.data[1]
    /\ IsNumber(args0.data[1]["total_species"])
    /\ IsNumber(args0.data[1]["area"])
    /\ LeNum(PyInt(0), args0.data[1]["total_species"])

\* C23: for a first record with total_species >= 0, calculate_species_richness
\* returns total_species / area when area > 0; when area is 0 it raises
\* ValueError in strict mode and returns NaN otherwise.
C23_QuotientOrZeroArea ==
    SpeciesDone /\ CountedSpecies =>
        /\ LtNum(PyInt(0), args0.data[1]["area"]) =>
              /\ result.kind = "return"
              /\ IsQuotient(result.value, args0.data[1]["total_species"],
                            args0.data[1]["area"])
        /\ EqNum(args0.data[1]["area"], PyInt(0)) =>
              IF args0.strict
              THEN /\ result.kind = "raise"
                   /\ result.exc = "ValueError"
                   /\ result.msg.tmpl =
                        "Area must be greater than zero for strict mode."
              ELSE result = Return(NaN)

\* 2 species on half a hectare: 4.0 species per hectare
C23_Witness ==
    /\ SpeciesDone
    /\ CountedSpecies
    /\ args0.data[1]["total_species"] = PyInt(2)
    /\ args0.data[1]["area"] = PyFloat(1, 2)
    /\ result = Return(PyFloat(4, 1))

\* the first record holds numbers in both fields
NumericSpecies ==
    /\ Len(args0.data) > 0
    /\ {"total_species", "area"} \subseteq DOMAIN args0.data[1]
    /\ IsNumber(args0.data[1]["total_species"])
    /\ IsNumber(args0.data[1]["area"])

\* C24: with strict=False calculate_species_richness raises nothing for a
\* first record of numbers, and returns NaN when total_species or area is
\* below zero.
C24_NonStrictNeverRaises ==
    SpeciesDone /\ ~args0.strict /\ NumericSpecies =>
        /\ result.kind = "return"
        /\ (\/ LtNum(args0.data[1]["total_species"], PyInt(0))
            \/ LtNum(args0.data[1]["area"], PyInt(0)))
               => result = Return(NaN)

(***************************************************************************)
(* Properties of calculate_endemism_index.                                 *)
(***************************************************************************)
EndemismDone == pc = "done" /\ fn = "calculate_endemism_index"

EndemismFields == {"presence_or_absence", "total_regions"}

\* every record of the batch holds both fields
AllFieldsHeld ==
    \A i \in 1..Len(args0.endemism_data) :
        EndemismFields \subseteq DOMAIN args0.endemism_data[i]

Presence(i) == args0.endemism_data[i]["presence_or_absence"]

Regions(i) == args0.endemism_data[i]["total_regions"]

\* record i passes the validation: two numbers, the presence in [0, 1], the
\* regions at least 1
PassesValidation(i) ==
    /\ IsNumber(Presence(i)) /\ IsNumber(Regions(i))
    /\ LeNum(PyInt(0), Presence(i)) /\ LeNum(Presence(i), PyInt(1))
    /\ LeNum(PyInt(1), Regions(i))

\* the records whose share 1/total_regions is not zero: they pass, the
\* species is present and the regions are finitely many
Sharing ==
    {i \in 1..Len(args0.endemism_data) :
        PassesValidation(i) /\ EqNum(Presence(i), PyInt(1)) /\ Regions(i).c = "fin"}

\* the product of the numerators of total_regions over the records of S
RECURSIVE RegionsProduct(_)
RegionsProduct(S) ==
    IF S = {} THEN 1
    ELSE LET i == CHOOSE x \in S : TRUE
         IN  Regions(i).n * RegionsProduct(S \ {i})

\* the sum of 1/total_regions over the records of S, times RegionsProduct(All)
RECURSIVE SharesTimesProduct(_, _)
SharesTimesProduct(S, All) ==
    IF S = {} THEN 0
    ELSE LET i == CHOOSE x \in S : TRUE
         IN  Regions(i).d * RegionsProduct(All \ {i})
             + SharesTimesProduct(S \ {i}, All)

Skipped == {i \in 1..Len(args0.endemism_data) : ~PassesValidation(i)}

Warned(i) == \E a \in 1..Len(events) : events[a] = SkipWarning(i - 1)

FieldMissing ==
    \E i \in 1..Len(args0.endemism_data) :
        ~(EndemismFields \subseteq DOMAIN args0.endemism_data[i])

\* C26: calculate_endemism_index returns for every batch, and every record
\* that is out of range, of a wrong type or short of a required field is
\* warned about and counted as skipped.
C26_NoRecordAborts ==
    EndemismDone =>
        /\ result.kind = "return"
        /\ \A i \in 1..Len(args0.endemism_data) :
              (~(EndemismFields \subseteq DOMAIN args0.endemism_data[i])
               \/ ~PassesValidation(i)) => Warned(i)

(***************************************************************************)
(* Properties of calculate_shannon_wiener_index_batch.                     *)
(***************************************************************************)
ShannonDone == pc = "done" /\ fn = "calculate_shannon_wiener_index_batch"

\* every count is an int of value >= 0
NonNegativeIntegers ==
    \A i \in 1..Len(args0.species_counts) :
        args0.species_counts[i].t = "int" /\ args0.species_counts[i].n >= 0

\* the total of the counts
RECURSIVE TotalFrom(_)
TotalFrom(k) ==
    IF k > Len(args0.species_counts) THEN PyInt(0)
    ELSE AddNum(args0.species_counts[k], TotalFrom(k + 1))

TotalCount == TotalFrom(1)

SomeZeroCount ==
    \E i \in 1..Len(args0.species_counts) :
        EqNum(args0.species_counts[i], PyInt(0))

\* the proportions of the strictly positive counts, in the order of the counts
PositiveProportions ==
    LET positive == SelectSeq(args0.species_counts, LAMBDA v : v.n > 0)
    IN  [i \in 1..Len(positive) |-> Fraction(positive[i].n, TotalCount.n)]

\* C27: with strict=True calculate_shannon_wiener_index_batch raises
\* ValueError whenever some count is zero or the total is zero; with
\* strict=False it raises nothing for counts that are all non-negative
\* integers, returns NaN when their total is zero and otherwise the index
\* over the strictly positive counts only.
C27_StrictHonoured ==
    ShannonDone =>
        /\ (args0.strict /\ (SomeZeroCount \/ EqNum(TotalCount, PyInt(0)))) =>
              result.kind = "raise" /\ result.exc = "ValueError"
        /\ (~args0.strict /\ NonNegativeIntegers) =>
              /\ result.kind = "return"
              /\ IF TotalCount.n = 0 THEN result = Return(NaN)
                 ELSE result = Return(ShannonWiener(PositiveProportions))

(***************************************************************************)
(* The metric functions that return from their first record.               *)
(***************************************************************************)
FirstRecordDone ==
    /\ pc = "done"
    /\ fn \in {"calculate_biodiversity_units", "calculate_habitat_condition_score",
               "calculate_species_richness"}

\* the list of records the function was called with
MetricBatch ==
    IF fn = "calculate_biodiversity_units" THEN args0.unit_data ELSE args0.data

\* how the same call ends on the list that holds the first record alone
OutcomeOnFirst ==
    LET first == <<MetricBatch[1]>>
    IN  CASE fn = "calculate_biodiversity_units" ->
               calculate_biodiversity_units(first).result
          [] fn = "calculate_habitat_condition_score" ->
               calculate_habitat_condition_score(first).result
          [] fn = "calculate_species_richness" ->
               calculate_species_richness(first, args0.strict).result

\* the type schema refused a record after the first
LateSchemaError ==
    /\ fn # "calculate_species_richness"
    /\ SchemaError(result)
    /\ result.msg.index >= 1

\* C28: calculate_biodiversity_units, calculate_habitat_condition_score and
\* calculate_species_richness return None for the empty list, and for a list
\* of two or more records they subscript and range-check the first record
\* only and end as they do on the first record alone, unless (first two
\* functions) the type schema refuses a later record.
C28_FirstRecordOnly ==
    FirstRecordDone =>
        /\ Len(MetricBatch) = 0 => result = Return(None)
        /\ Len(MetricBatch) >= 2 =>
              /\ \A a \in 1..Len(events) :
                    events[a].op \in {"getitem", "range"} => events[a].rec = 0
              /\ result = OutcomeOnFirst \/ LateSchemaError

\* 10 hectares with four factors of 0.5, followed by an out-of-range record
C28_Witness ==
    /\ FirstRecordDone
    /\ fn = "calculate_biodiversity_units"
    /\ Len(MetricBatch) = 2
    /\ MetricBatch[2]["condition"] = PyFloat(2, 1)
    /\ result = Return(PyFloat(5, 8))

(***************************************************************************)
(* Properties of the risk ratios.                                          *)
(***************************************************************************)
OmegaDone == pc = "done" /\ fn = "check_omega_ratio"

\* some return lies below the risk-free rate
SomeLoss ==
    \E i \in 1..Len(args0.returns) :
        LtNum(args0.returns[i], args0.risk_free_rate)

\* C29: check_omega_ratio returns a value that is not NaN whenever some
\* excess return is negative, and NaN only when there is no loss.
C29_OmegaDefinedWithLosses ==
    OmegaDone => (result.value.value.c = "nan" <=> ~SomeLoss)

RatioDone ==
    /\ pc = "done"
    /\ fn \in {"check_sharpe_ratio", "check_calmar_ratio", "check_sortino_ratio",
               "check_omega_ratio", "check_cvar"}

\* C30: in every result check_sharpe_ratio, check_calmar_ratio,
\* check_sortino_ratio, check_omega_ratio and check_cvar return, the pass
\* flag is False when the value is NaN.
C30_NaNNeverPasses ==
    RatioDone /\ result.kind = "return" =>
        (result.value.value.c = "nan" => result.value.pass = FALSE)

\* two equal returns have no volatility: the Sharpe ratio is NaN and fails
\* the threshold -1.0
C30_Witness ==
    /\ RatioDone
    /\ fn = "check_sharpe_ratio"
    /\ Len(args0.returns) = 2
    /\ args0.returns[1] = args0.returns[2]
    /\ args0.threshold = PyFloat(-1, 1)
    /\ result = Return(MetricResult("Sharpe Ratio", NaN, FALSE))

====
